---- MODULE Spec2Model ----
(***************************************************************************)
(* InvoiceManager: the PDF field-extraction engine                         *)
(* (backend/services/pdf_parser.py).  Texts are TLA+ strings; the regular  *)
(* expressions of the source are data (sequences of nodes) interpreted by  *)
(* a backtracking matcher with Python's priorities (greedy / lazy          *)
(* quantifiers, ordered alternation, leftmost match).                      *)
(***************************************************************************)
EXTENDS Integers, Sequences, FiniteSets, TLC

(***************************************************************************)
(* Characters and Python's str primitives                                  *)
(***************************************************************************)
At(s, i) == SubSeq(s, i, i)


Digits == "0123456789"
LowerAscii == "abcdefghijklmnopqrstuvwxyz"
UpperAscii == "ABCDEFGHIJKLMNOPQRSTUVWXYZ"
LowerLatin == "àáâãäåæçèéêëìíîïðñòóôõöøùúûüýþ"
UpperLatin == "ÀÁÂÃÄÅÆÇÈÉÊËÌÍÎÏÐÑÒÓÔÕÖØÙÚÛÜÝÞ"

\* The character classes are written out: \d, [a-z], [A-Z], the letters of Latin-1.
Digit ==
    {"0", "1", "2", "3", "4", "5", "6", "7", "8", "9"}
LowerAsciiSet ==
    {"a", "b", "c", "d", "e", "f", "g", "h", "i", "j", "k", "l", "m", "n", "o", "p", "q",
     "r", "s", "t", "u", "v", "w", "x", "y", "z"}
UpperAsciiSet ==
    {"A", "B", "C", "D", "E", "F", "G", "H", "I", "J", "K", "L", "M", "N", "O", "P", "Q",
     "R", "S", "T", "U", "V", "W", "X", "Y", "Z"}
LowerLatinSet ==
    {"à", "á", "â", "ã", "ä", "å", "æ", "ç", "è", "é", "ê", "ë", "ì", "í", "î", "ï", "ð",
     "ñ", "ò", "ó", "ô", "õ", "ö", "ø", "ù", "ú", "û", "ü", "ý", "þ", "ß", "ÿ"}
UpperLatinSet ==
    {"À", "Á", "Â", "Ã", "Ä", "Å", "Æ", "Ç", "È", "É", "Ê", "Ë", "Ì", "Í", "Î", "Ï", "Ð",
     "Ñ", "Ò", "Ó", "Ô", "Õ", "Ö", "Ø", "Ù", "Ú", "Û", "Ü", "Ý", "Þ"}
\* [A-Za-zÀ-ÿ]: the code points U+00C0..U+00FF include the signs × and ÷
Letter == LowerAsciiSet \cup UpperAsciiSet \cup LowerLatinSet \cup UpperLatinSet \cup {"×", "÷"}
\* \s and the characters str.strip() removes
Space == {" ", "\t", "\n", "\r", "\f"}
\* \w
Word == LowerAsciiSet \cup UpperAsciiSet \cup LowerLatinSet \cup UpperLatinSet \cup Digit \cup {"_"}

Min(S) == CHOOSE m \in S : \A k \in S : m <= k

\* the first index in lo..hi at which s holds the character c, 0 if none
RECURSIVE Find(_, _, _, _)
Find(s, lo, hi, c) ==
    IF lo > hi THEN 0
    ELSE IF lo = hi THEN (IF At(s, lo) = c THEN lo ELSE 0)
    ELSE LET mid == (lo + hi) \div 2
             l == Find(s, lo, mid, c)
         IN  IF l # 0 THEN l ELSE Find(s, mid + 1, hi, c)

\* str.lower(), character by character
UpperAll == UpperAscii \o UpperLatin
LowerAll == LowerAscii \o LowerLatin
UpperSet == UpperAsciiSet \cup UpperLatinSet
LowerChar(c) == IF c \in UpperSet THEN At(LowerAll, Find(UpperAll, 1, Len(UpperAll), c)) ELSE c

RECURSIVE Lower(_)
Lower(s) ==
    IF Len(s) = 0 THEN ""
    ELSE IF Len(s) = 1 THEN LowerChar(s)
    ELSE LET h == Len(s) \div 2
         IN  Lower(SubSeq(s, 1, h)) \o Lower(SubSeq(s, h + 1, Len(s)))

\* the number of consecutive characters of s[lo..hi], from lo on, that are in cs
RECURSIVE RunIn(_, _, _, _)
RunIn(s, lo, hi, cs) ==
    IF lo > hi THEN 0
    ELSE IF lo = hi THEN (IF At(s, lo) \in cs THEN 1 ELSE 0)
    ELSE LET mid == (lo + hi) \div 2
             l == RunIn(s, lo, mid, cs)
         IN  IF l < mid - lo + 1 THEN l ELSE l + RunIn(s, mid + 1, hi, cs)

\* the same, from hi backwards
RECURSIVE RunBack(_, _, _, _)
RunBack(s, lo, hi, cs) ==
    IF lo > hi THEN 0
    ELSE IF lo = hi THEN (IF At(s, lo) \in cs THEN 1 ELSE 0)
    ELSE LET mid == (lo + hi) \div 2
             r == RunBack(s, mid + 1, hi, cs)
         IN  IF r < hi - mid THEN r ELSE r + RunBack(s, lo, mid, cs)

\* str.strip()
Strip(s) ==
    LET lead == RunIn(s, 1, Len(s), Space)
    IN  IF lead = Len(s) THEN ""
        ELSE SubSeq(s, lead + 1, Len(s) - RunBack(s, 1, Len(s), Space))

\* str.startswith(p)
StartsWith(s, p) == Len(p) <= Len(s) /\ SubSeq(s, 1, Len(p)) = p
EndsWith(s, p) == Len(p) <= Len(s) /\ SubSeq(s, Len(s) - Len(p) + 1, Len(s)) = p

\* the first index >= pos at which kw occurs in s, 0 if none
RECURSIVE FindStr(_, _, _, _)
FindStr(s, lo, hi, kw) ==
    IF lo > hi THEN 0
    ELSE IF lo = hi THEN (IF SubSeq(s, lo, lo + Len(kw) - 1) = kw THEN lo ELSE 0)
    ELSE LET mid == (lo + hi) \div 2
             l == FindStr(s, lo, mid, kw)
         IN  IF l # 0 THEN l ELSE FindStr(s, mid + 1, hi, kw)

\* `kw in s`
Contains(s, kw) == FindStr(s, 1, Len(s) - Len(kw) + 1, kw) # 0

\* str.count(kw): occurrences counted left to right without overlap
RECURSIVE CountFrom(_, _, _)
CountFrom(s, kw, pos) ==
    LET at == FindStr(s, pos, Len(s) - Len(kw) + 1, kw)
    IN  IF at = 0 THEN 0 ELSE 1 + CountFrom(s, kw, at + Len(kw))

Count(s, kw) == CountFrom(s, kw, 1)

\* str.replace(a, b) for a single character a
RECURSIVE Replace(_, _, _)
Replace(s, a, b) ==
    IF Len(s) = 0 THEN ""
    ELSE IF Len(s) = 1 THEN (IF s = a THEN b ELSE s)
    ELSE LET h == Len(s) \div 2
         IN  Replace(SubSeq(s, 1, h), a, b) \o Replace(SubSeq(s, h + 1, Len(s)), a, b)

\* str.split('\n'): the pieces between the line breaks (always at least one piece)
RECURSIVE SplitFrom(_, _)
SplitFrom(s, pos) ==
    LET nl == Find(s, pos, Len(s), "\n")
    IN  IF nl = 0 THEN <<SubSeq(s, pos, Len(s))>>
        ELSE <<SubSeq(s, pos, nl - 1)>> \o SplitFrom(s, nl + 1)

Split(s) == SplitFrom(s, 1)

\* '\n'.join(parts)
RECURSIVE Join(_)
Join(parts) ==
    IF Len(parts) = 0 THEN ""
    ELSE IF Len(parts) = 1 THEN parts[1]
    ELSE parts[1] \o "\n" \o Join(Tail(parts))

(***************************************************************************)
(* The regular-expression matcher (Python's re: backtracking, leftmost)    *)
(*   lit  : a literal string                                               *)
(*   cls  : a character class repeated min..max times, greedy or lazy      *)
(*   alt  : ordered alternatives, each a sequence of nodes                 *)
(*   open / close : the bounds of capture group g                          *)
(*   eol  : $     wb : \b                                                  *)
(***************************************************************************)
Inf == 100000

Lit(str) == [t |-> "lit", s |-> str]
Cls(set, lo, hi) == [t |-> "cls", cs |-> set, min |-> lo, max |-> hi, greedy |-> TRUE]
Lazy(set, lo, hi) == [t |-> "cls", cs |-> set, min |-> lo, max |-> hi, greedy |-> FALSE]
Alt(branches) == [t |-> "alt", alts |-> branches]
Words(strs) == Alt([i \in 1..Len(strs) |-> <<Lit(strs[i])>>])
Opt(nodes) == Alt(<<nodes, <<>>>>)
Beg(k) == [t |-> "open", g |-> k]
End(k) == [t |-> "close", g |-> k]
Eol == [t |-> "eol"]
Wb == [t |-> "wb"]

NoGroups == [k \in 1..3 |-> <<0, 0>>]
NoMatch == [ok |-> FALSE, start |-> 0, end |-> 0, g |-> NoGroups]

RunLen(s, pos, cs, max) ==
    RunIn(s, pos, IF pos + max - 1 < Len(s) THEN pos + max - 1 ELSE Len(s), cs)

IsWordAt(s, i) == i >= 1 /\ i <= Len(s) /\ At(s, i) \in Word

RECURSIVE Match(_, _, _)
RECURSIVE TryDown(_, _, _, _, _)
RECURSIVE TryUp(_, _, _, _, _)
RECURSIVE TryAlts(_, _, _, _, _)

\* match the node sequence p on s from index pos
Match(p, s, pos) ==
    IF Len(p) = 0 THEN [ok |-> TRUE, start |-> pos, end |-> pos, g |-> NoGroups]
    ELSE
      LET n == Head(p)
          rest == Tail(p)
      IN  CASE n.t = "lit" ->
                 IF pos + Len(n.s) - 1 <= Len(s) /\ SubSeq(s, pos, pos + Len(n.s) - 1) = n.s
                 THEN Match(rest, s, pos + Len(n.s)) ELSE NoMatch
            [] n.t = "cls" ->
                 LET run == RunLen(s, pos, n.cs, n.max)
                 IN  IF run < n.min THEN NoMatch
                     ELSE IF n.greedy THEN TryDown(rest, s, pos, run, n.min)
                     ELSE TryUp(rest, s, pos, n.min, run)
            [] n.t = "alt" -> TryAlts(n.alts, 1, rest, s, pos)
            [] n.t = "open" ->
                 LET r == Match(rest, s, pos)
                 IN  IF r.ok THEN [r EXCEPT !.g[n.g] = <<pos, @[2]>>] ELSE r
            [] n.t = "close" ->
                 LET r == Match(rest, s, pos)
                 IN  IF r.ok THEN [r EXCEPT !.g[n.g] = <<@[1], pos>>] ELSE r
            [] n.t = "eol" ->
                 IF pos = Len(s) + 1 \/ (pos = Len(s) /\ At(s, pos) = "\n")
                 THEN Match(rest, s, pos) ELSE NoMatch
            [] n.t = "wb" ->
                 IF IsWordAt(s, pos - 1) # IsWordAt(s, pos)
                 THEN Match(rest, s, pos) ELSE NoMatch

\* greedy repetition: the longest run first, giving back one character at a time
TryDown(rest, s, pos, k, min) ==
    LET r == Match(rest, s, pos + k)
    IN  IF r.ok THEN r
        ELSE IF k > min THEN TryDown(rest, s, pos, k - 1, min) ELSE NoMatch

\* lazy repetition: the shortest run first
TryUp(rest, s, pos, k, max) ==
    LET r == Match(rest, s, pos + k)
    IN  IF r.ok THEN r
        ELSE IF k < max THEN TryUp(rest, s, pos, k + 1, max) ELSE NoMatch

\* alternation: the first branch, in order, that lets the rest match
TryAlts(alts, i, rest, s, pos) ==
    IF i > Len(alts) THEN NoMatch
    ELSE LET r == Match(alts[i] \o rest, s, pos)
         IN  IF r.ok THEN r ELSE TryAlts(alts, i + 1, rest, s, pos)

\* re.match(p, s)
ReMatch(p, s) == [Match(p, s, 1) EXCEPT !.start = 1]

\* a match found from index lo
StartingAt(r, lo) == IF r.ok THEN [r EXCEPT !.start = lo] ELSE NoMatch

\* re.search(p, s): the leftmost start at which p matches
RECURSIVE SearchIn(_, _, _, _)
SearchIn(p, s, lo, hi) ==
    IF lo > hi THEN NoMatch
    ELSE IF lo = hi
         THEN StartingAt(Match(p, s, lo), lo)
    ELSE LET mid == (lo + hi) \div 2
             l == SearchIn(p, s, lo, mid)
         IN  IF l.ok THEN l ELSE SearchIn(p, s, mid + 1, hi)

ReSearch(p, s) == SearchIn(p, s, 1, Len(s) + 1)

\* match.group(k)
Group(s, m, k) == SubSeq(s, m.g[k][1], m.g[k][2] - 1)

\* str.upper() of a reference token ([a-z0-9_-] characters)
UpperChar(c) ==
    IF c \in LowerAsciiSet THEN At(UpperAscii, Find(LowerAscii, 1, Len(LowerAscii), c)) ELSE c

RECURSIVE Upper(_)
Upper(s) ==
    IF Len(s) = 0 THEN ""
    ELSE IF Len(s) = 1 THEN UpperChar(s)
    ELSE LET h == Len(s) \div 2
         IN  Upper(SubSeq(s, 1, h)) \o Upper(SubSeq(s, h + 1, Len(s)))

(***************************************************************************)
(* Numbers.  A float is [inf, m, e]: the decimal m * 10^-e (m has no       *)
(* trailing zero unless e = 0), or +infinity.  Python's float() of a       *)
(* decimal literal with more than FloatMaxDigits integer digits is inf.    *)
(* Binary rounding is not modelled: sums and products are exact decimals.  *)
(* An int is a natural number; HugeInt stands for every int too large to   *)
(* convert to a float (a literal of more than FloatMaxDigits digits).      *)
(***************************************************************************)
FloatMaxDigits == 309
HugeInt == 2147483647

RECURSIVE Pow10(_)
Pow10(n) == IF n = 0 THEN 1 ELSE 10 * Pow10(n - 1)

DigitVal(c) == Find(Digits, 1, Len(Digits), c) - 1

RECURSIVE NatOf(_)
NatOf(ds) ==
    IF Len(ds) = 0 THEN 0
    ELSE IF Len(ds) = 1 THEN DigitVal(ds)
    ELSE LET h == Len(ds) \div 2
         IN  NatOf(SubSeq(ds, 1, h)) * Pow10(Len(ds) - h) + NatOf(SubSeq(ds, h + 1, Len(ds)))

\* the number of digits of ds that follow its leading zeros
SigDigits(ds) == Len(ds) - RunLen(ds, 1, {"0"}, Len(ds))

RECURSIVE Norm(_, _)
Norm(m, e) ==
    IF e > 0 /\ m % 10 = 0 THEN Norm(m \div 10, e - 1) ELSE [inf |-> FALSE, m |-> m, e |-> e]

PosInf == [inf |-> TRUE, m |-> 0, e |-> 0]
Zero == Norm(0, 0)
FloatOfInt(n) == Norm(n, 0)

\* the index of the first "." of s, Len(s) + 1 if there is none
DotOf(s) == IF Find(s, 1, Len(s), ".") = 0 THEN Len(s) + 1 ELSE Find(s, 1, Len(s), ".")

\* s, with its first "." at dot, is a decimal literal: digits around at most one ".",
\* and at least one digit
IsDecimal(s, dot) ==
    /\ RunIn(s, 1, dot - 1, Digit) = dot - 1
    /\ RunIn(s, dot + 1, Len(s), Digit) >= Len(s) - dot
    /\ (IF dot <= Len(s) THEN Len(s) - 1 ELSE Len(s)) > 0

\* the value of the literal with integer part ip and fraction fp
FloatOf(ip, fp) ==
    IF SigDigits(ip) > FloatMaxDigits THEN PosInf ELSE Norm(NatOf(ip \o fp), Len(fp))

FloatAt(s, dot) ==
    IF IsDecimal(s, dot)
    THEN [ok |-> TRUE, v |-> FloatOf(SubSeq(s, 1, dot - 1), SubSeq(s, dot + 1, Len(s)))]
    ELSE [ok |-> FALSE, v |-> Zero]

FloatOfStripped(s) == FloatAt(s, DotOf(s))

\* float(str): [ok, v]; ok = FALSE is ValueError
ParseFloat(str) == FloatOfStripped(Strip(str))

\* int(str) of a \d+ capture
ParseInt(ds) == IF SigDigits(ds) > FloatMaxDigits THEN HugeInt ELSE NatOf(ds)

\* x == int(x) for a finite float
IsIntegral(v) == v.e = 0
\* int(x) for a finite float: truncation
Trunc(v) == v.m \div Pow10(v.e)

FPositive(v) == v.inf \/ v.m > 0
\* v < n for a natural number n
FLess(v, n) == ~v.inf /\ v.m < n * Pow10(v.e)

FAdd(a, b) ==
    IF a.inf \/ b.inf THEN PosInf
    ELSE LET e == IF a.e > b.e THEN a.e ELSE b.e
         IN  Norm(a.m * Pow10(e - a.e) + b.m * Pow10(e - b.e), e)

\* int * float for q >= 1: q is first converted to a float
FMul(q, v) == IF v.inf THEN PosInf ELSE Norm(q * v.m, v.e)

(***************************************************************************)
(* Shared pattern pieces                                                   *)
(***************************************************************************)
S0 == Cls(Space, 0, Inf)                 \* \s*
Sep == Cls({":"} \cup Space, 0, Inf)     \* [:\s]*
Cur == Cls({"$", "€"}, 0, 1)             \* [\$€]?
NumCh == Digit \cup {".", ","}           \* [\d.,]
AmtCh == NumCh \cup Space                \* [\d\s.,]
FirstN(q, n) == SubSeq(q, 1, IF Len(q) < n THEN Len(q) ELSE n)

(***************************************************************************)
(* _empty_result, _detect_mode, _detect_language                           *)
(***************************************************************************)
\* _empty_result with the other language as its default
empty_result_en(error_msg) ==
    [mode |-> "invoice", language |-> "en", from_address |-> "", to_address |-> "",
     items |-> <<>>, total |-> Zero, doc_title |-> "", raw_text |-> error_msg]

empty_result(error_msg) ==
    [mode |-> "invoice", language |-> "fr", from_address |-> "", to_address |-> "",
     items |-> <<>>, total |-> Zero, doc_title |-> "", raw_text |-> error_msg]

estimate_keywords == <<"devis", "estimate", "quotation", "quote", "proforma">>
invoice_keywords == <<"facture", "invoice", "bill", "receipt">>

french_keywords ==
    <<"facture", "devis", "montant", "total", "prix", "quantité", "adresse", "client",
      "référence", "émetteur", "destinataire", "rue", "avenue", "boulevard", "france",
      "paris", "lyon">>
english_keywords ==
    <<"invoice", "estimate", "amount", "price", "quantity", "address", "customer",
      "reference", "from", "bill to", "street", "road", "avenue">>

\* sum(text_lower.count(kw) for kw in kws)
RECURSIVE SumCount(_, _)
SumCount(text_lower, kws) ==
    IF Len(kws) = 0 THEN 0 ELSE Count(text_lower, Head(kws)) + SumCount(text_lower, Tail(kws))

\* _detect_mode with ties resolved to estimate
detect_mode_ties(text_lower) ==
    IF SumCount(text_lower, estimate_keywords) >= SumCount(text_lower, invoice_keywords)
    THEN "estimate" ELSE "invoice"

detect_mode(text_lower) ==
    LET estimate_count == SumCount(text_lower, estimate_keywords)
        invoice_count == SumCount(text_lower, invoice_keywords)
    IN  IF estimate_count > invoice_count THEN "estimate" ELSE "invoice"

\* _detect_language with ties resolved to English
detect_language_strict(text_lower) ==
    IF SumCount(text_lower, french_keywords) > SumCount(text_lower, english_keywords)
    THEN "fr" ELSE "en"

detect_language(text_lower) ==
    LET french_count == SumCount(text_lower, french_keywords)
        english_count == SumCount(text_lower, english_keywords)
    IN  IF french_count >= english_count THEN "fr" ELSE "en"

(***************************************************************************)
(* _extract_addresses and its helpers.  Indices are 1-based: index k here  *)
(* is Python's k - 1.                                                      *)
(***************************************************************************)
MarkerEnd == Cls({":", "\n"}, 1, 1)      \* [:\n]
from_markers ==
    << <<Words(<<"from", "de", "émetteur", "expéditeur">>), S0, MarkerEnd>>,
       <<Words(<<"vendeur", "seller">>), S0, MarkerEnd>> >>
to_markers ==
    << <<Alt(<< <<Lit("to")>>, <<Lit("à")>>, <<Lit("destinataire")>>, <<Lit("client")>>,
                <<Lit("bill"), S0, Lit("to")>>, <<Lit("facturer"), S0, Lit("à")>>,
                <<Lit("customer")>> >>), S0, MarkerEnd>>,
       <<Words(<<"acheteur", "buyer">>), S0, MarkerEnd>> >>

max_lines == 5
AddressWindow == 500
MinAddressLen == 10

\* ^(from|to|de|à|client|total|montant|date|invoice|facture)
section_marker ==
    <<Words(<<"from", "to", "de", "à", "client", "total", "montant", "date", "invoice",
              "facture">>)>>

\* the loop of _extract_address_block over parts[k..], address_lines collected so far
RECURSIVE AddressLoop(_, _, _)
RECURSIVE AddressLine(_, _, _, _)
AddressLoop(parts, k, address_lines) ==
    IF k > Len(parts) THEN address_lines
    ELSE AddressLine(parts, k, address_lines, Strip(parts[k]))

\* the body of the loop with every blank line passed over
AddressLinePastBlank(parts, k, address_lines, line) ==
    IF line = "" THEN AddressLoop(parts, k + 1, address_lines)
    ELSE IF ReMatch(section_marker, Lower(line)).ok THEN address_lines
    ELSE AddressLoop(parts, k + 1, Append(address_lines, line))

\* the body of the loop for the stripped line
AddressLine(parts, k, address_lines, line) ==
    IF line = ""
    THEN (IF Len(address_lines) > 0 THEN address_lines
          ELSE AddressLoop(parts, k + 1, address_lines))
    ELSE IF ReMatch(section_marker, Lower(line)).ok THEN address_lines
    ELSE AddressLoop(parts, k + 1, Append(address_lines, line))

\* the block taken from every line of the window
extract_address_block_uncut(text, start_idx) ==
    Join(AddressLoop(
        Split(SubSeq(text, start_idx,
                     IF start_idx + AddressWindow - 1 < Len(text)
                     THEN start_idx + AddressWindow - 1 ELSE Len(text))),
        1, <<>>))

\* start_idx: the index of the first character after the marker
extract_address_block(text, start_idx) ==
    Join(AddressLoop(
        FirstN(Split(SubSeq(text, start_idx,
                            IF start_idx + AddressWindow - 1 < Len(text)
                            THEN start_idx + AddressWindow - 1 ELSE Len(text))),
               max_lines),
        1, <<>>))

\* one `for pattern, _ in markers` loop: the first pattern that matches and
\* whose block is longer than 10 characters
RECURSIVE MarkerLoop(_, _, _, _)
RECURSIVE MarkerMatch(_, _, _, _, _)
RECURSIVE MarkerBlock(_, _, _, _, _)
MarkerLoop(markers, k, text_lower, full_text) ==
    IF k > Len(markers) THEN ""
    ELSE MarkerMatch(markers, k, text_lower, full_text, ReSearch(markers[k], text_lower))

MarkerMatch(markers, k, text_lower, full_text, match) ==
    IF match.ok
    THEN MarkerBlock(markers, k, text_lower, full_text,
                     extract_address_block(full_text, match.end))
    ELSE MarkerLoop(markers, k + 1, text_lower, full_text)

\* a block of any length accepted
MarkerBlockAnyLength(markers, k, text_lower, full_text, addr) ==
    IF addr # "" THEN addr
    ELSE MarkerLoop(markers, k + 1, text_lower, full_text)

MarkerBlock(markers, k, text_lower, full_text, addr) ==
    IF Len(addr) > MinAddressLen THEN addr
    ELSE MarkerLoop(markers, k + 1, text_lower, full_text)

\* \b\d{5}(?:-\d{4})?\b
postal_pattern == <<Wb, Cls(Digit, 5, 5), Opt(<<Lit("-"), Cls(Digit, 4, 4)>>), Wb>>

\* ^(total|montant|date|invoice|facture|devis|\d+[.,]\d+\s*€?$)
not_address_part ==
    <<Alt(<< <<Lit("total")>>, <<Lit("montant")>>, <<Lit("date")>>, <<Lit("invoice")>>,
             <<Lit("facture")>>, <<Lit("devis")>>,
             <<Cls(Digit, 1, Inf), Cls({".", ","}, 1, 1), Cls(Digit, 1, Inf), S0,
               Cls({"€"}, 0, 1), Eol>> >>)>>

\* a stripped line of the window that is kept in the block
IsAddressPart(l) == l # "" /\ ~ReMatch(not_address_part, Lower(l)).ok

\* the kept lines among lines[j..end]
RECURSIVE Collect(_, _, _)
Collect(lines, j, end) ==
    IF j > end THEN <<>>
    ELSE (IF IsAddressPart(Strip(lines[j])) THEN <<Strip(lines[j])>> ELSE <<>>)
         \o Collect(lines, j + 1, end)

\* the block collected around the postal-code line i: lines i-2 .. i+1
AddressBlockAt(lines, i) ==
    Join(Collect(lines, IF i - 2 > 1 THEN i - 2 ELSE 1,
                 IF i + 1 < Len(lines) THEN i + 1 ELSE Len(lines)))

\* the cursor moved to the very next line after a postal-code line
AfterBlockNext(lines, i) == i + 1

\* the cursor after a postal-code line at i (`i = end + 1`, end = min(len, i + 1)
\* with Python's 0-based i): the line that follows the postal-code line is passed over
AfterBlock(lines, i) == (IF i < Len(lines) THEN i ELSE Len(lines)) + 2

HasPostalCode(line) == ReSearch(postal_pattern, line).ok

\* a block appended even when every line of its window was left out
BlockEvenEmpty(block) == <<block>>

\* `if len(block) > 0: blocks.append(block)`
BlockIfAny(block) == IF block # "" THEN <<block>> ELSE <<>>

RECURSIVE BlocksFrom(_, _)
BlocksFrom(lines, i) ==
    IF i > Len(lines) THEN <<>>
    ELSE IF HasPostalCode(lines[i])
         THEN BlockIfAny(AddressBlockAt(lines, i)) \o BlocksFrom(lines, AfterBlock(lines, i))
         ELSE BlocksFrom(lines, i + 1)

find_address_blocks(lines) == BlocksFrom(lines, 1)

\* a single block given to both sides
FromBlocksOneForBoth(from_address, to_address, address_blocks) ==
    <<IF Len(address_blocks) >= 1 /\ from_address = "" THEN address_blocks[1]
      ELSE from_address,
      IF Len(address_blocks) >= 2 /\ to_address = "" THEN address_blocks[2]
      ELSE IF Len(address_blocks) = 1 /\ to_address = "" THEN address_blocks[1]
      ELSE to_address>>

\* Strategy 2 (lines 134-148), entered when a marker strategy left a side empty
FromBlocks(from_address, to_address, address_blocks) ==
    <<IF Len(address_blocks) >= 2 /\ from_address = "" THEN address_blocks[1]
      ELSE from_address,
      IF Len(address_blocks) >= 2 /\ to_address = "" THEN address_blocks[2]
      ELSE IF Len(address_blocks) = 1 /\ to_address = "" THEN address_blocks[1]
      ELSE to_address>>

StripBoth(a) == <<Strip(a[1]), Strip(a[2])>>

\* `if not from_address or not to_address`
RunsStrategyB(from_address, to_address) == from_address = "" \/ to_address = ""

AddressesOf(from_address, to_address, lines) ==
    IF RunsStrategyB(from_address, to_address)
    THEN StripBoth(FromBlocks(from_address, to_address, find_address_blocks(lines)))
    ELSE StripBoth(<<from_address, to_address>>)

extract_addresses(lines, full_text) ==
    AddressesOf(MarkerLoop(from_markers, 1, Lower(full_text), full_text),
                MarkerLoop(to_markers, 1, Lower(full_text), full_text), lines)

\* the functions entered by a call of _extract_addresses
AddressCalls(from_address, to_address) ==
    IF RunsStrategyB(from_address, to_address)
    THEN {"_extract_addresses", "_find_address_blocks"}
    ELSE {"_extract_addresses"}

(***************************************************************************)
(* _is_metadata                                                            *)
(***************************************************************************)
S1 == Cls(Space, 1, 1)                   \* \s
DateSep == Cls({"/", "-"}, 1, 1)         \* [/\-]
metadata_patterns ==
    << <<Lit("devis"), S1>>, <<Lit("facture"), S1>>, <<Lit("invoice"), S1>>,
       <<Lit("estimate"), S1>>,
       <<Lit("n"), Cls({"°", "o"}, 1, 1), Cls({"."}, 0, 1), S1>>,
       <<Lit("ref")>>, <<Lit("date"), S1>>, <<Lit("client"), S1>>, <<Lit("numéro")>>,
       <<Lit("number")>>,
       <<Cls(Digit, 1, 2), DateSep, Cls(Digit, 1, 2), DateSep, Cls(Digit, 2, 4)>>,
       <<Lit("valide")>>, <<Lit("valid")>>, <<Lit("émis")>>, <<Lit("issued")>> >>

AnyMatch(patterns, s) == \E k \in 1..Len(patterns) : ReMatch(patterns[k], s).ok

\* the test without the metadata patterns
is_metadata_short_only(text) == Len(text) < 15 /\ ReMatch(<<Cls(Digit, 1, 1)>>, text).ok

is_metadata(text) ==
    LET text_lower == Strip(Lower(text))
    IN  \/ AnyMatch(metadata_patterns, text_lower)
        \/ (Len(text) < 15 /\ ReMatch(<<Cls(Digit, 1, 1)>>, text).ok)

(***************************************************************************)
(* _extract_table_items: the header search, then one step per iteration of *)
(* the scan loop (cursor i, 1-based)                                       *)
(***************************************************************************)
description_headers == <<"description", "désignation", "libellé">>
header_cells ==
    {"quantité", "quantity", "qty", "qté", "prix unitaire", "unit price",
     "prix unitaire (€)", "prix", "total", "total (€)", "montant"}

IsDescriptionHeader(line) ==
    \E k \in 1..Len(description_headers) : Contains(Strip(Lower(line)), description_headers[k])

\* header_idx, 0 when there is no header line (Python's -1)
HeaderIdx(lines) ==
    LET hs == {k \in 1..Len(lines) : IsDescriptionHeader(lines[k])}
    IN  IF hs = {} THEN 0 ELSE Min(hs)

RECURSIVE SkipHeaderCells(_, _)
SkipHeaderCells(lines, i) ==
    IF i <= Len(lines) /\ Strip(Lower(lines[i])) \in header_cells
    THEN SkipHeaderCells(lines, i + 1) ELSE i

starts_with_letter == <<Cls(Letter, 1, 1)>>                      \* ^[A-Za-zÀ-ÿ]
pure_number == <<Beg(1), Cls(NumCh, 1, Inf), End(1), Eol>>    \* ^([\d.,]+)$
MaxNumbers == 3

\* `float(num_match.group(1).replace(',', '.'))` inside try/except ValueError:
\* numbers_found with the number appended, or unchanged
WithNumber(numbers_found, num) ==
    IF num.ok THEN Append(numbers_found, num.v) ELSE numbers_found

\* the lookahead loop from line j with numbers_found collected so far
RECURSIVE Lookahead(_, _, _)
RECURSIVE LookaheadLine(_, _, _, _, _)
Lookahead(lines, j, numbers_found) ==
    IF ~(j <= Len(lines) /\ Len(numbers_found) < MaxNumbers)
    THEN [j |-> j, numbers_found |-> numbers_found]
    ELSE LookaheadLine(lines, j, numbers_found, Strip(lines[j]),
                       ReMatch(pure_number, Strip(lines[j])))

\* the body of the loop for next_line and its num_match
LookaheadLine(lines, j, numbers_found, next_line, num_match) ==
    IF ReMatch(starts_with_letter, next_line).ok /\ ~num_match.ok
    THEN [j |-> j, numbers_found |-> numbers_found]
    ELSE IF StartsWith(Lower(next_line), "total")
    THEN [j |-> j, numbers_found |-> numbers_found]
    ELSE IF num_match.ok
    THEN Lookahead(lines, j + 1,
                   WithNumber(numbers_found,
                              ParseFloat(Replace(Group(next_line, num_match, 1), ",", "."))))
    ELSE Lookahead(lines, j + 1, numbers_found)

Item(description, quantity, price) ==
    [description |-> description, quantity |-> quantity, price |-> price]

\* the scan stops at line i: the final total
\* the stop test without the prefix `total:`
IsFinalTotalExact(line) == Lower(line) = "total"

IsFinalTotal(line) == StartsWith(Lower(line), "total:") \/ Lower(line) = "total"

\* a candidate description
IsDescription(line) == ReMatch(starts_with_letter, line).ok /\ ~is_metadata(line)

\* the quantity read from the first number; int() of an infinite float raises
QtyRaises(n) == n.inf
QtyOf(n) == IF IsIntegral(n) THEN Trunc(n) ELSE 1

\* the acceptance test without `qty > 0`
ItemAcceptedAnyQty(description, qty, price) ==
    description # "" /\ (price.inf \/ price.m >= 0)

ItemAccepted(description, qty, price) == description # "" /\ qty > 0 /\ (price.inf \/ price.m >= 0)

\* lines 293-308: the item built from the description and the numbers found
ItemIfAccepted(items, description, qty, price) ==
    IF ItemAccepted(description, qty, price)
    THEN Append(items, Item(description, qty, price)) ELSE items

\* the same without `i += 1` at the end of the loop body
table_item_in_place(i, items, line, la) ==
    IF IsDescription(line) /\ Len(la.numbers_found) >= 2
    THEN IF QtyRaises(la.numbers_found[1])
         THEN [i |-> i, items |-> items, stop |-> TRUE, raised |-> TRUE]
         ELSE [i |-> la.j,
               items |-> ItemIfAccepted(items, line, QtyOf(la.numbers_found[1]),
                                        la.numbers_found[2]),
               stop |-> FALSE, raised |-> FALSE]
    ELSE [i |-> i, items |-> items, stop |-> FALSE, raised |-> FALSE]

\* the same, always going on after the lines the lookahead has read
table_item_past_lookahead(i, items, line, la) ==
    IF IsDescription(line) /\ Len(la.numbers_found) >= 2
    THEN IF QtyRaises(la.numbers_found[1])
         THEN [i |-> i, items |-> items, stop |-> TRUE, raised |-> TRUE]
         ELSE [i |-> la.j,
               items |-> ItemIfAccepted(items, line, QtyOf(la.numbers_found[1]),
                                        la.numbers_found[2]),
               stop |-> FALSE, raised |-> FALSE]
    ELSE [i |-> la.j, items |-> items, stop |-> FALSE, raised |-> FALSE]

\* lines 267-310 for the stripped line and the outcome la of the lookahead
table_item(i, items, line, la) ==
    IF IsDescription(line) /\ Len(la.numbers_found) >= 2
    THEN IF QtyRaises(la.numbers_found[1])
         THEN [i |-> i, items |-> items, stop |-> TRUE, raised |-> TRUE]
         ELSE [i |-> la.j,
               items |-> ItemIfAccepted(items, line, QtyOf(la.numbers_found[1]),
                                        la.numbers_found[2]),
               stop |-> FALSE, raised |-> FALSE]
    ELSE [i |-> i + 1, items |-> items, stop |-> FALSE, raised |-> FALSE]

table_line(lines, i, items, line) ==
    IF IsFinalTotal(line)
    THEN [i |-> i, items |-> items, stop |-> TRUE, raised |-> FALSE]
    ELSE IF line = "" THEN [i |-> i + 1, items |-> items, stop |-> FALSE, raised |-> FALSE]
    ELSE table_item(i, items, line, Lookahead(lines, i + 1, <<>>))

\* one iteration of the scan loop at cursor i <= len(lines):
\* [i, items, stop (break), raised (OverflowError)]
table_step(lines, i, items) == table_line(lines, i, items, Strip(lines[i]))

(***************************************************************************)
(* _extract_inline_items                                                   *)
(***************************************************************************)
NoPrefix == Cls({"°", "o"}, 1, 1)        \* [°o]
DotSep == Cls({"/", "-", "."}, 1, 1)     \* [/\-\.]
skip_patterns ==
    << <<Lit("devis"), Wb>>, <<Lit("facture"), Wb>>, <<Lit("invoice"), Wb>>,
       <<Lit("estimate"), Wb>>, <<Lit("date"), Wb>>,
       <<Lit("n"), NoPrefix, Cls({"."}, 0, 1), S0, Cls({":"}, 0, 1), S0, Cls(Digit, 1, 1)>>,
       <<Lit("ref")>>, <<Lit("client"), Wb>>, <<Lit("total"), Wb>>, <<Lit("montant"), Wb>>,
       <<Lit("sous-total")>>, <<Lit("subtotal")>>, <<Lit("tva"), Wb>>, <<Lit("tax"), Wb>>,
       <<Cls(Digit, 1, 2), DotSep, Cls(Digit, 1, 2), DotSep, Cls(Digit, 2, 4)>>,
       <<Lit("page"), Cls(Space, 1, Inf), Cls(Digit, 1, 1)>>,
       <<Lit("siret"), Wb>>, <<Lit("iban"), Wb>>, <<Lit("bic"), Wb>> >>

MinLineLen == 5
MaxInlinePrice == 1000000

\* [\w\s\-\(\)\'\"\.,:]
DescCh == Word \cup Space \cup {"-", "(", ")", "'", "\"", ".", ",", ":"}

\* ^([A-Za-zÀ-ÿ][\w\s\-\(\)\'\"\.,:]+?)\s{2,}(\d+)\s+[\$€]?\s*([\d\s.,]+)
qty_price_pattern ==
    <<Beg(1), Cls(Letter, 1, 1), Lazy(DescCh, 1, Inf), End(1), Cls(Space, 2, Inf),
      Beg(2), Cls(Digit, 1, Inf), End(2), Cls(Space, 1, Inf), Cur, S0,
      Beg(3), Cls(AmtCh, 1, Inf), End(3)>>

\* ^([A-Za-zÀ-ÿ][\w\s\-\(\)\'\"\.,:]{5,}?)\s{2,}[\$€]?\s*([\d.,]+)\s*€?$
price_only_pattern ==
    <<Beg(1), Cls(Letter, 1, 1), Lazy(DescCh, 5, Inf), End(1), Cls(Space, 2, Inf),
      Cur, S0, Beg(2), Cls(NumCh, 1, Inf), End(2), S0, Cls({"€"}, 0, 1), Eol>>

\* lines 343-350 for the captures of pattern (a)
QtyPriceOf(group1, desc, qty, price) ==
    IF ~is_metadata(group1) /\ price.ok /\ Len(desc) > 2 /\ qty > 0
    THEN <<Item(desc, qty, price.v)>> ELSE <<>>

QtyPriceMatch(line_stripped, match) ==
    IF match.ok
    THEN QtyPriceOf(Group(line_stripped, match, 1),
                    Strip(Group(line_stripped, match, 1)),
                    ParseInt(Group(line_stripped, match, 2)),
                    ParseFloat(Replace(Replace(Group(line_stripped, match, 3), " ", ""),
                                       ",", ".")))
    ELSE <<>>

\* pattern (a) on a line: the item it accepts, as a sequence of 0 or 1 items
QtyPriceItem(line_stripped) ==
    QtyPriceMatch(line_stripped, ReMatch(qty_price_pattern, line_stripped))

\* lines 358-365 for the captures of pattern (b)
PriceOnlyOf(group1, desc, price) ==
    IF ~is_metadata(group1) /\ price.ok /\ Len(desc) > 3
       /\ FPositive(price.v) /\ FLess(price.v, MaxInlinePrice)
    THEN <<Item(desc, 1, price.v)>> ELSE <<>>

PriceOnlyMatch(line_stripped, match) ==
    IF match.ok
    THEN PriceOnlyOf(Group(line_stripped, match, 1),
                     Strip(Group(line_stripped, match, 1)),
                     ParseFloat(Replace(Group(line_stripped, match, 2), ",", ".")))
    ELSE <<>>

\* pattern (b) on a line
PriceOnlyItem(line_stripped) ==
    PriceOnlyMatch(line_stripped, ReMatch(price_only_pattern, line_stripped))

\* pattern (b) tried on every line, also after pattern (a) gave an item
FirstItemThenPriceOnly(with_qty, line_stripped) == with_qty \o PriceOnlyItem(line_stripped)

\* pattern (a) first; pattern (b) only when (a) gave no item
FirstItem(with_qty, line_stripped) ==
    IF with_qty # <<>> THEN with_qty ELSE PriceOnlyItem(line_stripped)

InlineItemsOfStripped(line_stripped) ==
    IF AnyMatch(skip_patterns, Lower(line_stripped)) \/ Len(line_stripped) < MinLineLen
    THEN <<>>
    ELSE FirstItem(QtyPriceItem(line_stripped), line_stripped)

\* the body of `for line in lines`
InlineItemsOf(line) == InlineItemsOfStripped(Strip(line))

RECURSIVE InlineFrom(_, _)
InlineFrom(lines, k) ==
    IF k > Len(lines) THEN <<>> ELSE InlineItemsOf(lines[k]) \o InlineFrom(lines, k + 1)

extract_inline_items(lines) == InlineFrom(lines, 1)

\* _extract_items returning the items of both strategies
extract_items_both(table_items, lines) == table_items \o extract_inline_items(lines)

\* _extract_items, once the table strategy has returned table_items
extract_items(table_items, lines) ==
    IF table_items # <<>> THEN table_items ELSE extract_inline_items(lines)

(***************************************************************************)
(* _calculate_total.  re.IGNORECASE: the patterns are matched on the       *)
(* lower-cased text, the capture is read at the same indices.              *)
(***************************************************************************)
Amount == <<Beg(1), Cls(AmtCh, 1, Inf), End(1)>>      \* ([\d\s.,]+)
OptNl == Opt(<<Lit("\n")>>)                               \* \n?
total_patterns ==
    << <<Lit("total"), S0, Lit(":"), S0, OptNl, S0, Cls({"€", "$"}, 0, 1), S0>> \o Amount,
       <<Lit("total"), S0, Alt(<< <<Lit("ttc")>>, <<Lit("ht")>>, <<>> >>), S0, Sep, Cur, S0>>
           \o Amount,
       <<Lit("montant"), S0, Alt(<< <<Lit("total")>>, <<Lit("ttc")>>, <<Lit("ht")>>, <<>> >>),
         S0, Sep, Cur, S0>> \o Amount,
       <<Lit("amount"), S0, Opt(<<Lit("due")>>), S0, Sep, Cur, S0>> \o Amount,
       <<Lit("grand"), S0, Lit("total"), S0, Sep, Cur, S0>> \o Amount,
       <<Lit("total"), S0, Lit(":"), S0, OptNl, S0, Lit("€")>> \o Amount,
       <<Lit("€")>> \o Amount \o <<S0, Eol>> >>

\* sum(item["quantity"] * item["price"] for item in items): [raised, v]
RECURSIVE SumItems(_, _, _)
SumItems(items, k, acc) ==
    IF k > Len(items) THEN [raised |-> FALSE, v |-> acc]
    ELSE IF items[k].quantity = HugeInt THEN [raised |-> TRUE, v |-> acc]
    ELSE SumItems(items, k + 1, FAdd(acc, FMul(items[k].quantity, items[k].price)))

\* the loop over total_patterns from pattern k
RECURSIVE TotalFromText(_, _, _)
RECURSIVE TotalMatch(_, _, _, _)
RECURSIVE TotalValue(_, _, _, _)
TotalFromText(full_text, text_lower, k) ==
    IF k > Len(total_patterns) THEN Zero
    ELSE TotalMatch(full_text, text_lower, k, ReSearch(total_patterns[k], text_lower))

TotalMatch(full_text, text_lower, k, match) ==
    IF match.ok
    THEN TotalValue(full_text, text_lower, k,
                    ParseFloat(Replace(Replace(Group(full_text, match, 1), " ", ""),
                                       ",", ".")))
    ELSE TotalFromText(full_text, text_lower, k + 1)

\* the value test without `total_val > 0`
TotalValueAny(full_text, text_lower, k, total_val) ==
    IF total_val.ok THEN total_val.v ELSE TotalFromText(full_text, text_lower, k + 1)

TotalValue(full_text, text_lower, k, total_val) ==
    IF total_val.ok /\ FPositive(total_val.v) THEN total_val.v
    ELSE TotalFromText(full_text, text_lower, k + 1)

\* [raised (OverflowError), v]
calculate_total(items, full_text) ==
    IF items # <<>> THEN SumItems(items, 1, Zero)
    ELSE [raised |-> FALSE, v |-> TotalFromText(full_text, Lower(full_text), 1)]

(***************************************************************************)
(* _extract_title                                                          *)
(***************************************************************************)
\* [A-Z0-9\-_] under re.IGNORECASE
RefCh == LowerAsciiSet \cup UpperAsciiSet \cup Digit \cup {"-", "_"}
Ref == <<Beg(1), Cls(RefCh, 1, Inf), End(1)>>
MinRefLen == 2
ref_patterns ==
    << <<Words(<<"facture", "invoice", "devis", "estimate">>), S0,
         Alt(<< <<Lit("n"), Cls({"°", "o"}, 0, 1), Cls({"."}, 0, 1)>>, <<Lit("#")>>,
                <<Lit("number")>>, <<>> >>),
         S0, Sep>> \o Ref,
       <<Alt(<< <<Lit("réf"), Opt(<<Lit("érence")>>)>>, <<Lit("ref"), Opt(<<Lit("erence")>>)>> >>),
         S0, Sep>> \o Ref,
       <<Lit("n"), Cls({"°", "o"}, 1, 1), Cls({"."}, 0, 1), S0>> \o Ref >>

RECURSIVE TitleFrom(_, _)
RECURSIVE TitleMatch(_, _, _)
RECURSIVE TitleRef(_, _, _)
TitleFrom(text_lower, k) ==
    IF k > Len(ref_patterns) THEN ""
    ELSE TitleMatch(text_lower, k, ReSearch(ref_patterns[k], text_lower))

TitleMatch(text_lower, k, match) ==
    IF match.ok THEN TitleRef(text_lower, k, Strip(Group(text_lower, match, 1)))
    ELSE TitleFrom(text_lower, k + 1)

\* the search given up at the first pattern that matches
TitleRefOrNothing(text_lower, k, ref) ==
    IF Len(ref) >= MinRefLen THEN Upper(ref) ELSE ""

TitleRef(text_lower, k, ref) ==
    IF Len(ref) >= MinRefLen THEN Upper(ref) ELSE TitleFrom(text_lower, k + 1)

\* the first line taken as the title when no reference is found
extract_title_or_first_line(lines, text_lower) ==
    IF TitleFrom(text_lower, 1) # "" \/ lines = <<>> THEN TitleFrom(text_lower, 1)
    ELSE Upper(lines[1])

extract_title(lines, text_lower) == TitleFrom(text_lower, 1)

(***************************************************************************)
(* extract_invoice_data as a state machine.  A worker c serves one call at *)
(* a time; its variables are the locals of the call (they keep their last  *)
(* values until the code assigns them again).  A document is the sequence  *)
(* of its page texts, or a decode failure with fitz's error text.          *)
(***************************************************************************)
NWorkers == 2
Workers == 1..NWorkers
MaxRuns == 2
MaxPages == 2
MaxReadPages == 10

VARIABLES
    pdf,            \* pdf[c]: the document of worker c's call
    pc,             \* pc[c]: where the call stands
    runs,           \* runs[c]: the number of calls worker c has started
    called,         \* called[c]: the stage functions the current call has entered
    previous,       \* previous[c]: the outcome of worker c's previous call
    full_text, text_lower, lines,
    mode, language, from_address, to_address,
    table_items,    \* `items` of _extract_table_items
    i,              \* the scan cursor of _extract_table_items
    items, total, doc_title,
    result,         \* result[c]: the dict returned (meaningful when pc[c] = "done")
    upload,         \* the request served by upload_invoice, if any
    app,            \* the desktop application: items, total_amount, the rows shown
    env,            \* SUPABASE_URL and SUPABASE_KEY as read when the service module loads
    supabase,       \* the module-level `supabase` of supabase_client.py
    clients,        \* the clients that create_client has returned so far
    thread          \* thread[t]: where thread t stands in get_supabase

vars == <<pdf, pc, runs, called, previous, full_text, text_lower, lines, mode, language,
          from_address, to_address, table_items, i, items, total, doc_title, result,
          upload, app, env, supabase, clients, thread>>

\* the desktop application and the backend client, which no parse and no upload touches
apart == <<app, env, supabase, clients, thread>>

\* what lies outside extract_invoice_data
outside == <<upload, apart>>

locals == <<full_text, text_lower, lines, mode, language, from_address, to_address,
            table_items, i, items, total, doc_title>>

Fields == {"mode", "language", "from_address", "to_address", "items", "total",
           "doc_title", "raw_text"}

NoResult == empty_result("")
NoOutcome == [raised |-> FALSE, returned |-> FALSE, value |-> NoResult]

\* no request to upload_invoice
NoFile == [filename |-> "", size |-> 0, doc |-> [ok |-> FALSE, pages |-> <<>>, error |-> ""]]
NoUpload ==
    [at |-> "none", file |-> NoFile, passed |-> {}, saved |-> {}, worker |-> 0,
     status |-> 0, detail |-> "", extracted |-> <<>>, raw_text |-> ""]

Decoded(pages) == [ok |-> TRUE, pages |-> pages, error |-> ""]
Broken(error) == [ok |-> FALSE, pages |-> <<>>, error |-> error]
NoPdf == Broken("")

DecodeErrors == {"cannot open broken document", "no objects found"}

\* the documents of at most MaxPages pages whose page texts come from a catalogue
SeqsUpTo(S, n) == UNION {[1..k -> S] : k \in 0..n}
Documents(catalogue) ==
    {Decoded(p) : p \in SeqsUpTo(catalogue, MaxPages)} \cup {Broken(e) : e \in DecodeErrors}

\* every page of the document read, from page k
RECURSIVE PagesTextAll(_, _)
PagesTextAll(pages, k) ==
    IF k > Len(pages) THEN ""
    ELSE pages[k] \o "\n" \o PagesTextAll(pages, k + 1)

\* the loop `for page_num in range(min(10, doc.page_count))` from page k
RECURSIVE PagesText(_, _)
PagesText(pages, k) ==
    IF k > Len(pages) \/ k > MaxReadPages THEN ""
    ELSE pages[k] \o "\n" \o PagesText(pages, k + 1)

\* [line.strip() for line in full_text.split('\n') if line.strip()]
NormalizedLines(text) ==
    LET parts == Split(text)
    IN  SelectSeq([k \in 1..Len(parts) |-> Strip(parts[k])], LAMBDA l : l # "")

Outcome(c) ==
    [raised |-> pc[c] = "raised", returned |-> pc[c] = "done",
     value |-> IF pc[c] = "done" THEN result[c] ELSE NoResult]

(***************************************************************************)
(* The desktop application and the backend client before anything is done  *)
(***************************************************************************)
\* The floats of the application: nan, the two infinities, and the finite decimals
\* m / 10^e with m of either sign (binary rounding is not modelled).
Nan == [sp |-> "nan", m |-> 0, e |-> 0]
PlusInf == [sp |-> "inf", m |-> 0, e |-> 0]
MinusInf == [sp |-> "-inf", m |-> 0, e |-> 0]
Finite(m, e) == [sp |-> "", m |-> Norm(m, e).m, e |-> Norm(m, e).e]

\* InvoiceApp.__init__, lines 17-18: no item, total_amount 0.0, an empty tree, and no
\* message box shown yet
NewApp == [items |-> <<>>, total_amount |-> Finite(0, 0), tree |-> <<>>, shown |-> ""]

\* None, and the threads that serve requests
None == 0
NThreads == 2
Threads == 1..NThreads
\* a thread that has not called get_supabase: `new` is the client it has created and
\* not yet stored, `returned` the clients its calls have returned
Idle == [at |-> "idle", calls |-> 0, new |-> None, returned |-> {}]

Configured == [SUPABASE_URL |-> "https://project.supabase.co", SUPABASE_KEY |-> "anon-key"]

\* supabase_client.py line 11: `supabase: Client = None`
NoClient ==
    /\ supabase = None
    /\ clients = {}
    /\ thread = [t \in Threads |-> Idle]

ApartInit ==
    /\ app = NewApp
    /\ env = Configured
    /\ NoClient

InitWith(docs) ==
    /\ ApartInit
    /\ pdf \in {[c \in Workers |-> IF c = 1 THEN d ELSE NoPdf] : d \in docs}
    /\ pc = [c \in Workers |-> IF c = 1 THEN "open" ELSE "off"]
    /\ runs = [c \in Workers |-> IF c = 1 THEN 1 ELSE 0]
    /\ called = [c \in Workers |-> {}]
    /\ previous = [c \in Workers |-> NoOutcome]
    /\ full_text = [c \in Workers |-> ""]
    /\ text_lower = [c \in Workers |-> ""]
    /\ lines = [c \in Workers |-> <<>>]
    /\ mode = [c \in Workers |-> ""]
    /\ language = [c \in Workers |-> ""]
    /\ from_address = [c \in Workers |-> ""]
    /\ to_address = [c \in Workers |-> ""]
    /\ table_items = [c \in Workers |-> <<>>]
    /\ i = [c \in Workers |-> 0]
    /\ items = [c \in Workers |-> <<>>]
    /\ total = [c \in Workers |-> Zero]
    /\ doc_title = [c \in Workers |-> ""]
    /\ result = [c \in Workers |-> NoResult]
    /\ upload = NoUpload

\* _extract_table_items run to its end from cursor k: [raised, items]
RECURSIVE extract_table_items_from(_, _, _)
RECURSIVE AfterTableStep(_, _)
extract_table_items_from(ls, k, its) ==
    IF k > Len(ls) THEN [raised |-> FALSE, items |-> its]
    ELSE AfterTableStep(ls, table_step(ls, k, its))

AfterTableStep(ls, r) ==
    IF r.raised \/ r.stop THEN [raised |-> r.raised, items |-> r.items]
    ELSE extract_table_items_from(ls, r.i, r.items)

extract_table_items(ls) ==
    IF HeaderIdx(ls) = 0 THEN [raised |-> FALSE, items |-> <<>>]
    ELSE extract_table_items_from(ls, SkipHeaderCells(ls, HeaderIdx(ls) + 1), <<>>)

\* extract_invoice_data as a function of the document: the outcome of a call that
\* runs from its first line to its last with nothing in between
Raises == [raised |-> TRUE, returned |-> FALSE, value |-> NoResult]
Returns(record) == [raised |-> FALSE, returned |-> TRUE, value |-> record]

RecordOf(ft, ls, tl, addresses, its, tot) ==
    IF tot.raised THEN Raises
    ELSE Returns([mode |-> detect_mode(tl), language |-> detect_language(tl),
                  from_address |-> addresses[1], to_address |-> addresses[2],
                  items |-> its, total |-> tot.v, doc_title |-> extract_title(ls, tl),
                  raw_text |-> ft])

WithItems(ft, ls, its) ==
    RecordOf(ft, ls, Lower(ft), extract_addresses(ls, ft), its, calculate_total(its, ft))

WithTable(ft, ls, table) ==
    IF table.raised THEN Raises ELSE WithItems(ft, ls, extract_items(table.items, ls))

WithLines(ft, ls) == WithTable(ft, ls, extract_table_items(ls))

extract_invoice_data(doc) ==
    IF doc.ok THEN WithLines(PagesText(doc.pages, 1), NormalizedLines(PagesText(doc.pages, 1)))
    ELSE Returns(empty_result("Error opening PDF: " \o doc.error))

\* two callers, each with a document of its own, both about to start
Callers == {1, 2}
InitBoth(docs) ==
    /\ ApartInit
    /\ pdf \in {[c \in Workers |-> IF c = 1 THEN d ELSE IF c = 2 THEN e ELSE NoPdf] :
                    d \in docs, e \in docs}
    /\ pc = [c \in Workers |-> IF c \in Callers THEN "open" ELSE "off"]
    /\ runs = [c \in Workers |-> IF c \in Callers THEN 1 ELSE 0]
    /\ called = [c \in Workers |-> {}]
    /\ previous = [c \in Workers |-> NoOutcome]
    /\ full_text = [c \in Workers |-> ""]
    /\ text_lower = [c \in Workers |-> ""]
    /\ lines = [c \in Workers |-> <<>>]
    /\ mode = [c \in Workers |-> ""]
    /\ language = [c \in Workers |-> ""]
    /\ from_address = [c \in Workers |-> ""]
    /\ to_address = [c \in Workers |-> ""]
    /\ table_items = [c \in Workers |-> <<>>]
    /\ i = [c \in Workers |-> 0]
    /\ items = [c \in Workers |-> <<>>]
    /\ total = [c \in Workers |-> Zero]
    /\ doc_title = [c \in Workers |-> ""]
    /\ result = [c \in Workers |-> NoResult]
    /\ upload = NoUpload

\* lines 23-34: open the document and read its first pages; a decode failure
\* returns _empty_result
Open(c) ==
    /\ pc[c] = "open"
    /\ IF pdf[c].ok
       THEN /\ full_text' = [full_text EXCEPT ![c] = PagesText(pdf[c].pages, 1)]
            /\ pc' = [pc EXCEPT ![c] = "prepare"]
            /\ UNCHANGED result
       ELSE /\ result' = [result EXCEPT ![c] =
                             empty_result("Error opening PDF: " \o pdf[c].error)]
            /\ pc' = [pc EXCEPT ![c] = "done"]
            /\ UNCHANGED full_text
    /\ UNCHANGED <<outside, pdf, runs, called, previous, text_lower, lines, mode, language,
                   from_address, to_address, table_items, i, items, total, doc_title>>

\* lines 36-38
Prepare(c) ==
    /\ pc[c] = "prepare"
    /\ lines' = [lines EXCEPT ![c] = NormalizedLines(full_text[c])]
    /\ text_lower' = [text_lower EXCEPT ![c] = Lower(full_text[c])]
    /\ pc' = [pc EXCEPT ![c] = "mode"]
    /\ UNCHANGED <<outside, pdf, runs, called, previous, full_text, mode, language, from_address,
                   to_address, table_items, i, items, total, doc_title, result>>

Enter(c, f) == called' = [called EXCEPT ![c] = @ \cup {f}]
EnterAll(c, fs) == called' = [called EXCEPT ![c] = @ \cup fs]

\* line 41
DetectMode(c) ==
    /\ pc[c] = "mode"
    /\ Enter(c, "_detect_mode")
    /\ mode' = [mode EXCEPT ![c] = detect_mode(text_lower[c])]
    /\ pc' = [pc EXCEPT ![c] = "language"]
    /\ UNCHANGED <<outside, pdf, runs, previous, full_text, text_lower, lines, language,
                   from_address, to_address, table_items, i, items, total, doc_title, result>>

\* line 42
DetectLanguage(c) ==
    /\ pc[c] = "language"
    /\ Enter(c, "_detect_language")
    /\ language' = [language EXCEPT ![c] = detect_language(text_lower[c])]
    /\ pc' = [pc EXCEPT ![c] = "addresses"]
    /\ UNCHANGED <<outside, pdf, runs, previous, full_text, text_lower, lines, mode,
                   from_address, to_address, table_items, i, items, total, doc_title, result>>

\* `from_address, to_address = ...`
Addresses(c, a) ==
    /\ from_address' = [from_address EXCEPT ![c] = a[1]]
    /\ to_address' = [to_address EXCEPT ![c] = a[2]]

\* line 43
ExtractAddresses(c) ==
    /\ pc[c] = "addresses"
    /\ EnterAll(c, AddressCalls(MarkerLoop(from_markers, 1, Lower(full_text[c]), full_text[c]),
                                MarkerLoop(to_markers, 1, Lower(full_text[c]), full_text[c])))
    /\ Addresses(c, extract_addresses(lines[c], full_text[c]))
    /\ pc' = [pc EXCEPT ![c] = "items"]
    /\ UNCHANGED <<outside, pdf, runs, previous, full_text, text_lower, lines, mode, language,
                   table_items, i, items, total, doc_title, result>>

\* lines 235-247: no header, no table items; else the cursor passes the header cells
AfterHeader(c, header_idx) ==
    IF header_idx = 0
    THEN /\ pc' = [pc EXCEPT ![c] = "fallback"]
         /\ UNCHANGED i
    ELSE /\ pc' = [pc EXCEPT ![c] = "scan"]
         /\ i' = [i EXCEPT ![c] = SkipHeaderCells(lines[c], header_idx + 1)]

\* _extract_table_items appending to a list that outlives the call
TableHeaderShared(c) ==
    /\ pc[c] = "items"
    /\ Enter(c, "_extract_items")
    /\ AfterHeader(c, HeaderIdx(lines[c]))
    /\ UNCHANGED <<outside, pdf, runs, previous, full_text, text_lower, lines, mode, language,
                   from_address, to_address, table_items, items, total, doc_title, result>>

\* line 44, then _extract_table_items lines 222-247: the header search
TableHeader(c) ==
    /\ pc[c] = "items"
    /\ Enter(c, "_extract_items")
    /\ table_items' = [table_items EXCEPT ![c] = <<>>]
    /\ AfterHeader(c, HeaderIdx(lines[c]))
    /\ UNCHANGED <<outside, pdf, runs, previous, full_text, text_lower, lines, mode, language,
                   from_address, to_address, items, total, doc_title, result>>

\* the effect r of one iteration of the scan loop, on a list shared by all calls
ScannedShared(c, r) ==
    /\ pc' = [pc EXCEPT ![c] = IF r.raised THEN "raised"
                               ELSE IF r.stop THEN "fallback" ELSE "scan"]
    /\ i' = [i EXCEPT ![c] = r.i]
    /\ table_items' = [w \in Workers |-> r.items]

\* the effect r of one iteration of the scan loop
Scanned(c, r) ==
    /\ pc' = [pc EXCEPT ![c] = IF r.raised THEN "raised"
                               ELSE IF r.stop THEN "fallback" ELSE "scan"]
    /\ i' = [i EXCEPT ![c] = r.i]
    /\ table_items' = [table_items EXCEPT ![c] = r.items]

\* _extract_table_items lines 250-312: one iteration of the scan loop, or its end
TableScan(c) ==
    /\ pc[c] = "scan"
    /\ IF i[c] > Len(lines[c])
       THEN /\ pc' = [pc EXCEPT ![c] = "fallback"]
            /\ UNCHANGED <<i, table_items>>
       ELSE Scanned(c, table_step(lines[c], i[c], table_items[c]))
    /\ UNCHANGED <<outside, pdf, runs, called, previous, full_text, text_lower, lines, mode,
                   language, from_address, to_address, items, total, doc_title, result>>

\* _extract_items lines 213-217: the table items, or the inline fallback
ItemsReturn(c) ==
    /\ pc[c] = "fallback"
    /\ items' = [items EXCEPT ![c] = extract_items(table_items[c], lines[c])]
    /\ pc' = [pc EXCEPT ![c] = "total"]
    /\ UNCHANGED <<outside, pdf, runs, called, previous, full_text, text_lower, lines, mode,
                   language, from_address, to_address, table_items, i, total, doc_title,
                   result>>

\* `total = ...`, unless the call raised
Totalled(c, r) ==
    /\ pc' = [pc EXCEPT ![c] = IF r.raised THEN "raised" ELSE "title"]
    /\ total' = [total EXCEPT ![c] = IF r.raised THEN @ ELSE r.v]

\* line 45
CalculateTotal(c) ==
    /\ pc[c] = "total"
    /\ Enter(c, "_calculate_total")
    /\ Totalled(c, calculate_total(items[c], full_text[c]))
    /\ UNCHANGED <<outside, pdf, runs, previous, full_text, text_lower, lines, mode, language,
                   from_address, to_address, table_items, i, items, doc_title, result>>

\* line 46
ExtractTitle(c) ==
    /\ pc[c] = "title"
    /\ Enter(c, "_extract_title")
    /\ doc_title' = [doc_title EXCEPT ![c] = extract_title(lines[c], text_lower[c])]
    /\ pc' = [pc EXCEPT ![c] = "return"]
    /\ UNCHANGED <<outside, pdf, runs, previous, full_text, text_lower, lines, mode, language,
                   from_address, to_address, table_items, i, items, total, result>>

\* lines 48-57
Return(c) ==
    /\ pc[c] = "return"
    /\ result' = [result EXCEPT ![c] =
                     [mode |-> mode[c], language |-> language[c],
                      from_address |-> from_address[c], to_address |-> to_address[c],
                      items |-> items[c], total |-> total[c], doc_title |-> doc_title[c],
                      raw_text |-> full_text[c]]]
    /\ pc' = [pc EXCEPT ![c] = "done"]
    /\ UNCHANGED <<outside, pdf, runs, called, previous, locals>>

\* the caller invokes extract_invoice_data again on the same document
Again(c) ==
    /\ pc[c] \in {"done", "raised"}
    /\ runs[c] < MaxRuns
    /\ previous' = [previous EXCEPT ![c] = Outcome(c)]
    /\ runs' = [runs EXCEPT ![c] = @ + 1]
    /\ called' = [called EXCEPT ![c] = {}]
    /\ pc' = [pc EXCEPT ![c] = "open"]
    /\ UNCHANGED <<outside, pdf, locals, result>>

(***************************************************************************)
(* upload_invoice (routes/invoices.py): the request goes from "received"   *)
(* through `await file.read()` ("read") to the call of the engine          *)
(* ("parsing") and to its response ("done").                               *)
(***************************************************************************)
MaxUploadBytes == 10485760
RawTextLimit == 3000

engine == <<pdf, pc, runs, called, previous, locals, result>>

\* the characters of s that belong to cs
RECURSIVE Keep(_, _)
Keep(s, cs) ==
    IF s = "" THEN ""
    ELSE (IF At(s, 1) \in cs THEN At(s, 1) ELSE "") \o Keep(SubSeq(s, 2, Len(s)), cs)

\* "".join(c for c in file.filename if c.isalnum() or c in ('_', '-', '.')).strip()
SafeFilename(filename) == Strip(Keep(filename, Word \cup {"-", "."}))

FileIds == {"4f1c"}

\* `raise HTTPException(status_code=..., detail=...)`
Rejected(status, detail) ==
    upload' = [upload EXCEPT !.at = "done", !.status = status, !.detail = detail]

\* lines 292-297: the check of the file type, then the content is read
CheckType ==
    /\ upload.at = "received"
    /\ IF EndsWith(Lower(upload.file.filename), ".pdf")
       THEN upload' = [upload EXCEPT !.at = "read", !.passed = @ \cup {"type"}]
       ELSE Rejected(400, "Only PDF files are accepted")
    /\ UNCHANGED <<engine, apart>>

\* the checks of the content without the size limit
ContentErrorNoLimit(size) == IF size = 0 THEN "Empty file" ELSE ""

\* lines 299-304: the detail of the error raised for the content read, "" for none
ContentError(size) ==
    IF size = 0 THEN "Empty file"
    ELSE IF size > MaxUploadBytes THEN "File too large (max 10MB)"
    ELSE ""

\* lines 306-321: the file is written (which may fail) and extract_invoice_data is
\* called, served by worker c
SaveAndCall(c, file_id, written) ==
    IF written
    THEN /\ upload' = [upload EXCEPT !.at = "parsing", !.passed = @ \cup {"empty", "size"},
                                     !.worker = c,
                                     !.saved = {file_id \o "_" \o SafeFilename(upload.file.filename)}]
         /\ pdf' = [pdf EXCEPT ![c] = upload.file.doc]
         /\ pc' = [pc EXCEPT ![c] = "open"]
         /\ runs' = [runs EXCEPT ![c] = 1]
         /\ UNCHANGED <<called, previous, locals, result>>
    ELSE /\ Rejected(500, "Failed to upload PDF: cannot write the file")
         /\ UNCHANGED engine

\* lines 299-321
ReadAndParse(c) ==
    /\ upload.at = "read" /\ pc[c] = "off"
    /\ IF ContentError(upload.file.size) # ""
       THEN Rejected(400, ContentError(upload.file.size)) /\ UNCHANGED engine
       ELSE \E file_id \in FileIds : \E written \in BOOLEAN : SaveAndCall(c, file_id, written)
    /\ UNCHANGED apart

\* str(parse_error) for the OverflowError raised by worker c's call
ParseError(c) ==
    IF "_calculate_total" \in called[c] THEN "int too large to convert to float"
    ELSE "cannot convert float infinity to integer"

\* lines 322-333: extracted_data, the fallback dict when the call raised
ExtractedData(c) ==
    IF pc[c] = "raised"
    THEN [mode |-> "invoice", language |-> "fr", from_address |-> "", to_address |-> "",
          items |-> <<>>, total |-> Zero, doc_title |-> "",
          raw_text |-> "Failed to parse: " \o ParseError(c)]
    ELSE result[c]

\* lines 336-351: the response built from extracted_data
Responded(data) ==
    upload' = [upload EXCEPT
                  !.at = "done", !.status = 200,
                  !.extracted = [mode |-> data.mode, language |-> data.language,
                                 from_address |-> data.from_address,
                                 to_address |-> data.to_address, items |-> data.items,
                                 total |-> data.total, doc_title |-> data.doc_title],
                  !.raw_text = FirstN(data.raw_text, RawTextLimit)]

\* lines 321-351: the call has ended and the response is returned
Respond(c) ==
    /\ upload.at = "parsing" /\ upload.worker = c
    /\ pc[c] \in {"done", "raised"}
    /\ Responded(ExtractedData(c))
    /\ UNCHANGED <<engine, apart>>

Next ==
    \E c \in Workers :
        \/ Open(c)
        \/ Prepare(c)
        \/ DetectMode(c)
        \/ DetectLanguage(c)
        \/ ExtractAddresses(c)
        \/ TableHeader(c)
        \/ TableScan(c)
        \/ ItemsReturn(c)
        \/ CalculateTotal(c)
        \/ ExtractTitle(c)
        \/ Return(c)
        \/ Again(c)

\* the engine together with a request to upload_invoice
NextUpload ==
    \/ Next
    \/ CheckType
    \/ \E c \in Workers : ReadAndParse(c)
    \/ \E c \in Workers : Respond(c)

(***************************************************************************)
(* Catalogues of page texts and the specifications drawn from them         *)
(***************************************************************************)
RECURSIVE Repeat(_, _)
Repeat(s, n) ==
    IF n = 0 THEN "" ELSE IF n = 1 THEN s
    ELSE Repeat(s, n \div 2) \o Repeat(s, n - n \div 2)

\* a numeral that float() reads as inf and int() as an int beyond the float range
HugeNumeral == Repeat("9", FloatMaxDigits + 1)

\* items: a table header, table rows (a plain one, a free one followed by a printed
\* total, one of quantity 0), inline rows, and rows whose quantity is out of range
ItemTexts ==
    {"Description\nQuantité\nPrix",
     "Description\nConsulting\n2\n50,00\n100,00",
     "Support\n1.5\n0\nTotal:\n€110.00",
     "Design\n0\n10",
     "Website redesign   3  $450.00",
     "Hosting fee   €12,50",
     "Widget\n" \o HugeNumeral \o "\n1",
     "Gadget   " \o HugeNumeral \o "  1.00"}

\* printed totals and no item
TotalTexts ==
    {"Total:\n€110.00",
     "Total: 0",
     "Total: 1.2.3",
     "Montant TTC: 80,5",
     "Amount due: $99",
     "€42",
     "Désignation\nNote"}

\* keywords of the two document kinds and of the two languages
KindTexts ==
    {"Facture",
     "Devis",
     "Invoice",
     "Estimate",
     "Facture\nFacture N° 12\nfacture acquittée",
     "Quotation for price and amount",
     "12 avenue Foch",
     "Description\nBonjour"}

\* lines with postal codes, with and without a marker
AddressTexts ==
    {"Acme SARL\n12 rue Haute\n75001 Paris",
     "Dupont\n5 avenue B\n69002 Lyon",
     "75001 Paris\n69002 Lyon",
     "33000 Bordeaux",
     "Acme\nDate 13001",
     "Total\nDate 13002",
     "De:\nAcme SARL\n1 rue Basse",
     "Description\nLivraison"}

Init == InitWith(Documents(ItemTexts))
Spec == Init /\ [][Next]_vars

InitTotal == InitWith(Documents(TotalTexts))
SpecTotal == InitTotal /\ [][Next]_vars

InitKind == InitWith(Documents(KindTexts))
SpecKind == InitKind /\ [][Next]_vars

InitAddr == InitWith(Documents(AddressTexts))
SpecAddr == InitAddr /\ [][Next]_vars

\* address markers: a sender marker before two postal-code blocks, a sender marker
\* followed by six lines, a recipient marker, a lone postal-code line, a text without
\* any address, a marker followed by too short a block, and a table header
MarkerTexts ==
    {"From:\nAcme SARL\n12 rue Haute\n75001 Paris\n\nDupont\n5 avenue B\n69002 Lyon",
     "From: Acme SARL\n12 rue Haute\nBat. B\n75001 Paris\nFrance\nTel 0102",
     "To:\nDupont\n5 avenue B",
     "33000 Bordeaux",
     "Merci",
     "De:\nAcme",
     "Description\nLivraison"}

\* long documents: pages 1 .. MaxReadPages - 1 are blank, page MaxReadPages holds a
\* head text, and every page after it a tail text that would change the result
MaxLongPages == 11
HeadTexts == {"Libellé\nFacture N° 12"}
TailTexts == {"Devis\nDevis\nTotal: 5", "Invoice\nInvoice\n75001 Paris"}
LongPages(n, head, tail) ==
    [k \in 1..n |-> IF k < MaxReadPages THEN "" ELSE IF k = MaxReadPages THEN head ELSE tail]
LongDocuments ==
    {Decoded(LongPages(n, head, tail)) :
        n \in MaxReadPages..MaxLongPages, head \in HeadTexts, tail \in TailTexts}

InitPages == InitBoth(LongDocuments)
SpecPages == InitPages /\ [][Next]_vars

\* two callers at once, on one-page documents: two tables and an inline row
BothTexts ==
    {"Description\nConsulting\n2\n50,00\n100,00",
     "Désignation\nSupport\n1\n80",
     "Hosting fee   €12,50"}
OnePage(catalogue) == {Decoded(<<t>>) : t \in catalogue}

InitBothCallers == InitBoth(OnePage(BothTexts))
SpecBoth == InitBothCallers /\ [][Next]_vars

\* tables: a header with its cells, a plain row, a header with a row, a printed
\* total and a row after it, and the word Total before a row
TableTexts ==
    {"Description\nQuantité\nPrix\nTotal",
     "Conseil\n2\n50,00\n100,00",
     "Désignation\nAudit\n1\n300\nTOTAL: 300\nRemise\n1\n20",
     "Total\nPort\n1\n15"}

InitTable == InitWith(Documents(TableTexts))
SpecTable == InitTable /\ [][Next]_vars

\* inline rows: one with a quantity, one with a price only, one behind a skipped
\* word, one whose quantity is 0, and a table header without rows
InlineTexts ==
    {"Website redesign   3  $450.00",
     "Hosting fee   €12,50",
     "Total   3  10,00",
     "Licence   0  99",
     "Désignation\nDivers"}

InitInline == InitWith(Documents(InlineTexts))
SpecInline == InitInline /\ [][Next]_vars

\* references: one behind a first pattern that captures a single letter, one after
\* a number sign, a single digit, and a table header without any
TitleTexts ==
    {"Facture N\nRéf: AB-12",
     "Invoice #A7",
     "N° 5",
     "Libellé\nMerci"}

InitTitle == InitWith(Documents(TitleTexts))
SpecTitle == InitTitle /\ [][Next]_vars

\* uploads: names with and without the extension, in both cases; no content, one
\* byte, the largest size accepted and one byte more; a document that decodes, one
\* that does not, and one on which the engine raises
UploadNames == {"a.pdf", "SCAN 1.PDF", "notes.txt"}
UploadSizes == {0, 1, MaxUploadBytes, MaxUploadBytes + 1}
UploadDocuments ==
    {Decoded(<<"Facture N° 12">>), Broken("no objects found"),
     Decoded(<<"Description\nWidget\n" \o HugeNumeral \o "\n1">>)}
UploadFiles ==
    {[filename |-> n, size |-> 0, doc |-> NoPdf] : n \in UploadNames}
    \cup {[filename |-> n, size |-> z, doc |-> d] :
             n \in UploadNames, z \in UploadSizes \ {0}, d \in UploadDocuments}

\* no call of extract_invoice_data under way
EngineOff ==
    /\ pdf = [c \in Workers |-> NoPdf]
    /\ pc = [c \in Workers |-> "off"]
    /\ runs = [c \in Workers |-> 0]
    /\ called = [c \in Workers |-> {}]
    /\ previous = [c \in Workers |-> NoOutcome]
    /\ full_text = [c \in Workers |-> ""]
    /\ text_lower = [c \in Workers |-> ""]
    /\ lines = [c \in Workers |-> <<>>]
    /\ mode = [c \in Workers |-> ""]
    /\ language = [c \in Workers |-> ""]
    /\ from_address = [c \in Workers |-> ""]
    /\ to_address = [c \in Workers |-> ""]
    /\ table_items = [c \in Workers |-> <<>>]
    /\ i = [c \in Workers |-> 0]
    /\ items = [c \in Workers |-> <<>>]
    /\ total = [c \in Workers |-> Zero]
    /\ doc_title = [c \in Workers |-> ""]
    /\ result = [c \in Workers |-> NoResult]

InitUpload ==
    /\ upload \in {[NoUpload EXCEPT !.at = "received", !.file = f] : f \in UploadFiles}
    /\ EngineOff
    /\ ApartInit

SpecUpload == InitUpload /\ [][NextUpload]_vars

InitMarker == InitWith(Documents(MarkerTexts))
SpecMarker == InitMarker /\ [][Next]_vars

\* the scan loop: a row whose price carries a currency sign, a description right
\* after a row's numbers, a description followed by one number and a row of four
\* numbers, a row cut short by a line that begins with the word total, a row of
\* quantity 0, and a row whose first number is no decimal literal
ScanTexts ==
    {"Description\nWidget\n2\n50,00 €\n100,00",
     "Désignation\nAudit\n1\n300\nTransport\n1\n15",
     "Libellé\nNote\n7\nPort\n3\n2\n1\n9",
     "Description\nService\n2\nTotal HT\n100\n20",
     "Design\n0\n10",
     "Libellé\nPose\n1.2.3\n4\n5"}

InitScan == InitWith(Documents(ScanTexts))
SpecScan == InitScan /\ [][Next]_vars

\* marker blocks: a first sender marker before a short block and a second before a
\* long one, two sender markers before long blocks, a recipient marker followed by
\* blank lines, a block and a blank line, a block ended by a total line, a
\* recipient followed by a rule longer than the window, and a table header
StrategyATexts ==
    {"De:\nAcme\n\nVendeur: Acme SARL, 12 rue Haute",
     "From: Acme SARL\n12 rue Haute\n\nSeller: Other Corp\n99 Main Street",
     "To:\n\nDupont et Fils\n\n69002 Lyon",
     "Client: Martin et Fils\n3 quai Sud\nTotal: 40\nLyon",
     "Buyer: Martin SA " \o Repeat("=", AddressWindow + 20),
     "Description\nLivraison"}

InitStrategyA == InitWith(Documents(StrategyATexts))
SpecStrategyA == InitStrategyA /\ [][Next]_vars

\* metadata: a table with a reference row before a plain row, inline rows that
\* begin with a validity and with a number label, a plain inline row, a table row
\* that begins with the word issued, and the bare word devis before two numbers
MetaTexts ==
    {"Description\nReference\n2\n50\nWidget\n1\n20",
     "Valide jusqu'au   3  10,00",
     "Hosting fee   €12,50",
     "Numéro de commande   4  12",
     "Issued by Acme\n3\n4",
     "Devis\n2\n50"}

InitMeta == InitWith(Documents(MetaTexts))
SpecMeta == InitMeta /\ [][Next]_vars

(***************************************************************************)
(* The desktop application (gui_invoice_app.py): _add_item,                *)
(* _remove_selected_item, _clear_all.  A handler is one step: Tk runs its  *)
(* callbacks one at a time and reports an exception a callback raises      *)
(* without ending the application.  int() and float() are modelled on the  *)
(* literals without underscores and with ASCII digits.                     *)
(***************************************************************************)
MaxItems == 3

\* the sign of a literal: whether it has one, and whether it is "-"
HasSign(s) == s # "" /\ At(s, 1) \in {"+", "-"}
Unsigned(s) == IF HasSign(s) THEN SubSeq(s, 2, Len(s)) ELSE s
Negative(s) == HasSign(s) /\ At(s, 1) = "-"
AllDigits(s) == s # "" /\ RunIn(s, 1, Len(s), Digit) = Len(s)
AllZeros(s) == RunIn(s, 1, Len(s), {"0"}) = Len(s)

\* int(str): [ok, v]; ok = FALSE is ValueError
IntOfStripped(s) ==
    IF AllDigits(Unsigned(s))
    THEN [ok |-> TRUE, v |-> IF Negative(s) THEN 0 - ParseInt(Unsigned(s)) ELSE ParseInt(Unsigned(s))]
    ELSE [ok |-> FALSE, v |-> 0]
PyInt(str) == IntOfStripped(Strip(str))

\* the float of the digits ip "." fp times 10^x
Scaled(neg, ip, fp, x) ==
    IF AllZeros(ip \o fp) THEN Finite(0, 0)
    ELSE IF SigDigits(ip) + x > FloatMaxDigits THEN (IF neg THEN MinusInf ELSE PlusInf)
    ELSE IF x >= Len(fp)
    THEN Finite((IF neg THEN -1 ELSE 1) * NatOf(ip \o fp) * Pow10(x - Len(fp)), 0)
    ELSE Finite((IF neg THEN -1 ELSE 1) * NatOf(ip \o fp), Len(fp) - x)

\* the mantissa mant (digits around at most one ".", first "." at dot) with the
\* exponent x
FloatOfMantissa(neg, mant, dot, x) ==
    IF IsDecimal(mant, dot)
    THEN [ok |-> TRUE, v |-> Scaled(neg, SubSeq(mant, 1, dot - 1), SubSeq(mant, dot + 1, Len(mant)), x)]
    ELSE [ok |-> FALSE, v |-> Nan]

\* a literal with an exponent: the exponent is an optional sign and digits
FloatWithExponent(neg, mant, exp) ==
    IF AllDigits(Unsigned(exp))
    THEN FloatOfMantissa(neg, mant, DotOf(mant),
                         IF Negative(exp) THEN 0 - NatOf(Unsigned(exp)) ELSE NatOf(Unsigned(exp)))
    ELSE [ok |-> FALSE, v |-> Nan]

\* the literal body (lower case, sign removed), with its first "e" at epos (0: none)
FloatOfBody(neg, body, epos) ==
    IF body = "nan" THEN [ok |-> TRUE, v |-> Nan]
    ELSE IF body \in {"inf", "infinity"} THEN [ok |-> TRUE, v |-> IF neg THEN MinusInf ELSE PlusInf]
    ELSE IF epos = 0 THEN FloatOfMantissa(neg, body, DotOf(body), 0)
    ELSE FloatWithExponent(neg, SubSeq(body, 1, epos - 1), SubSeq(body, epos + 1, Len(body)))

FloatOfLower(s) == FloatOfBody(Negative(s), Unsigned(s), Find(Unsigned(s), 1, Len(Unsigned(s)), "e"))

\* float(str): [ok, v]; ok = FALSE is ValueError
PyFloat(str) == FloatOfLower(Lower(Strip(str)))

\* v < 0 and v >= 0: both are False for nan
IsNegative(v) == v.sp = "-inf" \/ (v.sp = "" /\ v.m < 0)
IsNonNegative(v) == v.sp = "inf" \/ (v.sp = "" /\ v.m >= 0)
\* a == b: nan equals nothing
FloatEq(a, b) == a.sp # "nan" /\ b.sp # "nan" /\ a = b

Opposite(v) ==
    IF v.sp = "inf" THEN MinusInf ELSE IF v.sp = "-inf" THEN PlusInf
    ELSE IF v.sp = "nan" THEN Nan ELSE Finite(0 - v.m, v.e)

\* a + b
Sum(a, b) ==
    IF a.sp = "nan" \/ b.sp = "nan" THEN Nan
    ELSE IF a.sp # "" /\ b.sp # "" THEN (IF a.sp = b.sp THEN a ELSE Nan)
    ELSE IF a.sp # "" THEN a
    ELSE IF b.sp # "" THEN b
    ELSE Finite(a.m * Pow10((IF a.e > b.e THEN a.e ELSE b.e) - a.e)
                + b.m * Pow10((IF a.e > b.e THEN a.e ELSE b.e) - b.e),
                IF a.e > b.e THEN a.e ELSE b.e)

\* quantity * price for an int quantity >= 1, which is first converted to a float:
\* [raised, v]; raised is the OverflowError of an int too large for a float
Product(quantity, price) ==
    IF quantity = HugeInt THEN [raised |-> TRUE, v |-> Nan]
    ELSE [raised |-> FALSE,
          v |-> IF price.sp # "" THEN price ELSE Finite(quantity * price.m, price.e)]

ItemTotal(item) == Product(item.quantity, item.price)

\* _redraw_items, lines 316-323: the tree is emptied, then a row is inserted for each
\* item until the total of one raises
RECURSIVE RowsFrom(_, _)
RowsFrom(its, k) ==
    IF k > Len(its) \/ ItemTotal(its[k]).raised THEN <<>>
    ELSE <<its[k]>> \o RowsFrom(its, k + 1)
redraw_items(a) == [a EXCEPT !.tree = RowsFrom(a.items, 1)]

\* line 307 and what follows it: the total grows, the tree is redrawn; an
\* OverflowError leaves the handler with the item appended and nothing else done
AddToTotal(a, item_total) ==
    IF item_total.raised THEN a
    ELSE redraw_items([a EXCEPT !.total_amount = Sum(@, item_total.v)])

\* lines 306-310
Appended(a, item) == AddToTotal([a EXCEPT !.items = Append(@, item)], ItemTotal(item))

ShowError(a, key) == [a EXCEPT !.shown = key]

\* lines 299-310: the price is converted and checked, then the item is added
AddWithPrice(a, description, quantity, price) ==
    IF ~price.ok \/ IsNegative(price.v) THEN ShowError(a, "error_price_invalid")
    ELSE Appended(a, [description |-> description, quantity |-> quantity, price |-> price.v])

\* lines 292-310: the quantity is converted and checked
AddWithQuantity(a, description, quantity, price_str) ==
    IF ~quantity.ok \/ quantity.v <= 0 THEN ShowError(a, "error_qty_invalid")
    ELSE AddWithPrice(a, description, quantity.v, PyFloat(price_str))

\* _add_item from line 288 on
add_item(a, description, quantity_str, price_str) ==
    IF description = "" THEN ShowError(a, "error_desc_empty")
    ELSE AddWithQuantity(a, description, PyInt(quantity_str), price_str)

\* the list without its k-th element
Pop(its, k) == SubSeq(its, 1, k - 1) \o SubSeq(its, k + 1, Len(its))

\* lines 405-410: the total shrinks, the tree is redrawn and the removal is
\* announced, unless a product raises on the way
TakeFromTotal(a, item_total) ==
    IF item_total.raised THEN a
    ELSE IF Len(redraw_items(a).tree) < Len(a.items)
    THEN redraw_items([a EXCEPT !.total_amount = Sum(@, Opposite(item_total.v))])
    ELSE redraw_items([a EXCEPT !.total_amount = Sum(@, Opposite(item_total.v)),
                                !.shown = "item_removed"])

\* _remove_selected_item with row `selected` of the tree selected (0: no selection)
remove_selected_item(a, selected) ==
    IF selected = 0 THEN [a EXCEPT !.shown = "no_selection"]
    ELSE TakeFromTotal([a EXCEPT !.items = Pop(@, selected)], ItemTotal(a.items[selected]))

\* _clear_all, lines 412-418
clear_all(a) == [NewApp EXCEPT !.shown = "clear_confirm"]

\* what the user can type into the three entry fields
HugeDigits == Repeat("9", FloatMaxDigits + 1)
Descriptions == {"  ", " Widget "}
QuantityEntries == {"", "2.5", "0", "-2", "1", " +3", HugeDigits}
PriceEntries == {"abc", "-1", "-inf", "0", "2,5", "1e1", "nan", "inf"}

\* a handler starts with no message box shown
Fresh(a) == [a EXCEPT !.shown = ""]

AddItem ==
    /\ Len(app.items) < MaxItems
    /\ \E d \in Descriptions, q \in QuantityEntries, p \in PriceEntries :
           app' = add_item(Fresh(app), Strip(d), Strip(q), Replace(Strip(p), ",", "."))
    /\ UNCHANGED <<engine, upload, env, supabase, clients, thread>>

RemoveSelectedItem ==
    /\ \E selected \in 0..Len(app.tree) : app' = remove_selected_item(Fresh(app), selected)
    /\ UNCHANGED <<engine, upload, env, supabase, clients, thread>>

ClearAll ==
    /\ app' = clear_all(app)
    /\ UNCHANGED <<engine, upload, env, supabase, clients, thread>>

NextApp == AddItem \/ RemoveSelectedItem \/ ClearAll

InitApp == upload = NoUpload /\ EngineOff /\ ApartInit
SpecApp == InitApp /\ [][NextApp]_vars

(***************************************************************************)
(* get_supabase (supabase_client.py), called from the threads that serve   *)
(* requests: get_required_user is a plain `def` dependency, which the      *)
(* framework runs in its thread pool.  No lock is taken, so a thread can   *)
(* be suspended between any two of the steps below.                        *)
(***************************************************************************)
MaxCalls == 2

Envs ==
    {[SUPABASE_URL |-> u, SUPABASE_KEY |-> k] :
        u \in {"", Configured.SUPABASE_URL}, k \in {"", Configured.SUPABASE_KEY}}

\* lines 18-20: the call starts; `supabase is None` is tested and, if so, the
\* settings are
Check(t) ==
    /\ thread[t].at \in {"idle", "done", "raised"}
    /\ thread[t].calls < MaxCalls
    /\ thread' = [thread EXCEPT
                     ![t].calls = @ + 1,
                     ![t].at = IF supabase # None THEN "returning"
                               ELSE IF env.SUPABASE_URL = "" \/ env.SUPABASE_KEY = ""
                               THEN "raised"
                               ELSE "creating"]
    /\ UNCHANGED <<engine, upload, app, env, supabase, clients>>

\* line 21, right-hand side: create_client returns a new client
Create(t) ==
    /\ thread[t].at = "creating"
    /\ clients' = clients \cup {Cardinality(clients) + 1}
    /\ thread' = [thread EXCEPT ![t].new = Cardinality(clients) + 1, ![t].at = "assigning"]
    /\ UNCHANGED <<engine, upload, app, env, supabase>>

\* line 21: the client is stored in the global
Assign(t) ==
    /\ thread[t].at = "assigning"
    /\ supabase' = thread[t].new
    /\ thread' = [thread EXCEPT ![t].new = None, ![t].at = "returning"]
    /\ UNCHANGED <<engine, upload, app, env, clients>>

\* line 22: the global is read and returned
ReturnClient(t) ==
    /\ thread[t].at = "returning"
    /\ thread' = [thread EXCEPT ![t].returned = @ \cup {supabase}, ![t].at = "done"]
    /\ UNCHANGED <<engine, upload, app, env, supabase, clients>>

NextClient ==
    \E t \in Threads : Check(t) \/ Create(t) \/ Assign(t) \/ ReturnClient(t)

InitClient ==
    /\ upload = NoUpload /\ EngineOff
    /\ app = NewApp
    /\ env \in Envs
    /\ NoClient
SpecClient == InitClient /\ [][NextClient]_vars

(***************************************************************************)
(* The claims                                                              *)
(***************************************************************************)
Returned(c) == pc[c] = "done"
DecodeFailed(c) == Returned(c) /\ ~pdf[c].ok
\* the stages up to `stage` of the current call have run
Past(c, stage) == stage \in called[c]

\* C1: every call returns a record holding all eight fields, on the decode-failure
\* path as on the normal path, and no call raises an error to its caller.
AlwaysFullRecord ==
    \A c \in Workers :
        /\ pc[c] # "raised"
        /\ Returned(c) => DOMAIN result[c] = Fields

\* the locale the classifier favours on ties, and the other one
PrimaryLocale == detect_language("")
SecondaryLocale == CHOOSE l \in {"fr", "en"} : l # PrimaryLocale

DefaultRecord(locale, error) ==
    [mode |-> "invoice", language |-> locale, from_address |-> "", to_address |-> "",
     items |-> <<>>, total |-> Zero, doc_title |-> "",
     raw_text |-> "Error opening PDF: " \o error]

\* C2 as stated: when decoding fails no stage runs and the result is the default
\* record whose locale is the secondary locale, with the decode error in rawText.
DecodeFailureGivesSecondaryLocale ==
    \A c \in Workers :
        DecodeFailed(c) =>
            /\ called[c] = {}
            /\ result[c] = DefaultRecord(SecondaryLocale, pdf[c].error)

\* C2 amended: when decoding fails no stage runs and the result is the default
\* record whose locale is the primary locale (the one favoured on ties): kind
\* invoice, empty addresses, no items, total 0, empty title, and a rawText that
\* embeds the decode error text.
DecodeFailureGivesDefaultRecord ==
    \A c \in Workers :
        DecodeFailed(c) =>
            /\ called[c] = {}
            /\ result[c] = DefaultRecord(PrimaryLocale, pdf[c].error)

\* a call has returned from a decode failure that carries an error text
DecodeFailureReturned ==
    \E c \in Workers : DecodeFailed(c) /\ pdf[c].error \in DecodeErrors

ValidItem(item) ==
    /\ item.description # ""
    /\ item.quantity \in Nat /\ item.quantity >= 1
    /\ item.price.inf \/ item.price.m >= 0

AllValid(its) == \A k \in 1..Len(its) : ValidItem(its[k])

\* C3: every item the table strategy or the inline strategy produces, and so every
\* item returned, has a non-empty description, an integer quantity >= 1 and a unit
\* price >= 0.
ItemsAreValid ==
    \A c \in Workers :
        /\ AllValid(table_items[c])
        /\ AllValid(items[c])
        /\ Returned(c) => AllValid(result[c].items)

\* lines[k], lines[k+1] are a description and a quantity of 0
ZeroQuantityRow(ls) ==
    \E k \in 1..Len(ls) - 1 : ls[k] = "Design" /\ ls[k + 1] = "0"

\* a call has returned items from a document that also holds a row of quantity 0
ItemsReturnedBesideZeroQuantity ==
    \E c \in Workers :
        Returned(c) /\ result[c].items # <<>> /\ ZeroQuantityRow(lines[c])

\* the sum of quantity x price over the items
RECURSIVE ItemSum(_)
ItemSum(its) ==
    IF its = <<>> THEN Zero
    ELSE FAdd(FMul(Head(its).quantity, Head(its).price), ItemSum(Tail(its)))

\* C4: whenever the item list is non-empty, _calculate_total returns exactly the sum
\* of quantity x price over the items, whatever total the text prints.
TotalIsItemSum ==
    \A c \in Workers :
        Past(c, "_calculate_total") /\ items[c] # <<>> =>
            /\ pc[c] # "raised"
            /\ total[c] = ItemSum(items[c])

\* the amount that total pattern k reads in the text: [ok, v], ok = FALSE when the
\* pattern does not match or its capture does not parse
AmountRead(text, match) ==
    IF match.ok
    THEN ParseFloat(Replace(Replace(Group(text, match, 1), " ", ""), ",", "."))
    ELSE [ok |-> FALSE, v |-> Zero]

PatternAmount(text, k) == AmountRead(text, ReSearch(total_patterns[k], Lower(text)))

Succeeds(text, k) == PatternAmount(text, k).ok /\ FPositive(PatternAmount(text, k).v)

FirstSucceeding(text) ==
    {k \in 1..Len(total_patterns) :
        Succeeds(text, k) /\ \A j \in 1..(k - 1) : ~Succeeds(text, j)}

ExpectedTotal(text) ==
    IF FirstSucceeding(text) = {} THEN Zero
    ELSE PatternAmount(text, CHOOSE k \in FirstSucceeding(text) : TRUE).v

LabeledTotal == "Total:\n€110.00"

\* C5: with no items, _calculate_total returns the amount of the first total
\* pattern, in the fixed order, whose match parses to a value > 0; a pattern that
\* does not match, does not parse or reads a value <= 0 is passed over; 0 if none
\* succeeds.  The text "Total:\n€110.00" alone gives no items and total 110.00.
TotalIsFirstPositiveAmount ==
    \A c \in Workers :
        /\ Past(c, "_calculate_total") /\ pc[c] # "raised" /\ items[c] = <<>> =>
               total[c] = ExpectedTotal(full_text[c])
        /\ Returned(c) /\ pdf[c].ok /\ pdf[c].pages = <<LabeledTotal>> =>
               result[c].items = <<>> /\ result[c].total = FloatOfInt(110)

\* a call has returned a positive total read by a later pattern, the first pattern
\* having read an amount that is not > 0
TotalReadAfterZeroAmount ==
    \E c \in Workers :
        /\ Returned(c) /\ pdf[c].ok /\ result[c].items = <<>>
        /\ PatternAmount(full_text[c], 1).ok
        /\ ~FPositive(PatternAmount(full_text[c], 1).v)
        /\ FPositive(result[c].total)

EstimateCount(c) == SumCount(text_lower[c], estimate_keywords)
InvoiceCount(c) == SumCount(text_lower[c], invoice_keywords)

\* C6: _detect_mode returns estimate if and only if the estimate keywords occur
\* strictly more often than the invoice keywords; otherwise (ties, both zero,
\* invoice-dominant) it returns invoice.
EstimateIffStrictMajority ==
    \A c \in Workers :
        Past(c, "_detect_mode") =>
            /\ mode[c] \in {"estimate", "invoice"}
            /\ mode[c] = "estimate" <=> EstimateCount(c) > InvoiceCount(c)

\* a call has classified a text in which both kinds of keywords occur equally often
KindTieClassified ==
    \E c \in Workers :
        /\ Past(c, "_detect_mode") /\ mode[c] = "invoice"
        /\ EstimateCount(c) = InvoiceCount(c) /\ InvoiceCount(c) > 0

FrenchCount(c) == SumCount(text_lower[c], french_keywords)
EnglishCount(c) == SumCount(text_lower[c], english_keywords)

\* C7: _detect_language returns the primary locale (fr) whenever the French keyword
\* count is >= the English one (ties and both zero included), and the secondary
\* locale (en) only when the English count is strictly greater.
PrimaryLocaleUnlessStrictMinority ==
    \A c \in Workers :
        Past(c, "_detect_language") =>
            language[c] = IF FrenchCount(c) >= EnglishCount(c) THEN "fr" ELSE "en"

\* a call has classified a text in which the keywords of both languages occur
\* equally often
LocaleTieClassified ==
    \E c \in Workers :
        /\ Past(c, "_detect_language") /\ language[c] = "fr"
        /\ FrenchCount(c) = EnglishCount(c) /\ EnglishCount(c) > 0

Finished(c) == pc[c] \in {"done", "raised"}

\* C8: a second call on the same page texts, started with whatever the first call
\* left behind, ends as the first one did: the same record in every field.
SecondRunSameResult ==
    \A c \in Workers :
        runs[c] >= 2 /\ Finished(c) => Outcome(c) = previous[c]

\* a second call on a document with items has returned
SecondRunReturnedItems ==
    \E c \in Workers :
        runs[c] = 2 /\ Returned(c) /\ result[c].items # <<>> /\ previous[c].returned

\* C9: _extract_items returns exactly the table items when there is at least one,
\* and exactly the inline items of all the lines otherwise (also when there is no
\* header); never items of both strategies.
ItemsFromOneStrategy ==
    \A c \in Workers :
        Past(c, "_calculate_total") =>
            /\ table_items[c] # <<>> => items[c] = table_items[c]
            /\ table_items[c] = <<>> => items[c] = extract_inline_items(lines[c])
            /\ HeaderIdx(lines[c]) = 0 => table_items[c] = <<>>

\* a call has returned table items from a document that also has inline items
TableItemsBesideInlineItems ==
    \E c \in Workers :
        /\ Returned(c) /\ pdf[c].ok /\ table_items[c] # <<>>
        /\ extract_inline_items(lines[c]) # <<>>
        /\ result[c].items = table_items[c]

PostalLines(ls) == {k \in 1..Len(ls) : HasPostalCode(ls[k])}
FirstPostal(ls) == Min(PostalLines(ls))
SecondPostal(ls) == Min(PostalLines(ls) \ {FirstPostal(ls)})
\* the postal-code lines at least two lines after the first one
LaterPostal(ls) == {k \in PostalLines(ls) : k >= FirstPostal(ls) + 2}

\* Strategy 1 (the markers) fills neither side
MarkersFillNothing(c) ==
    /\ MarkerLoop(from_markers, 1, text_lower[c], full_text[c]) = ""
    /\ MarkerLoop(to_markers, 1, text_lower[c], full_text[c]) = ""

\* C10 as stated: when two lines hold a postal code and the markers fill nothing,
\* from is the block around the first of them and to the block around the second,
\* whatever their distance.
BlocksAtFirstTwoPostalLines ==
    \A c \in Workers :
        /\ Past(c, "_extract_addresses") /\ MarkersFillNothing(c)
        /\ Cardinality(PostalLines(lines[c])) = 2
        => /\ from_address[c] = AddressBlockAt(lines[c], FirstPostal(lines[c]))
           /\ to_address[c] = AddressBlockAt(lines[c], SecondPostal(lines[c]))

TwoSeparateBlocks(c) ==
    /\ Past(c, "_extract_addresses") /\ MarkersFillNothing(c)
    /\ PostalLines(lines[c]) # {}
    /\ LaterPostal(lines[c]) # {}
    /\ AddressBlockAt(lines[c], FirstPostal(lines[c])) # ""
    /\ AddressBlockAt(lines[c], Min(LaterPostal(lines[c]))) # ""

\* C10 amended: when the markers fill nothing, from is the block around the first
\* postal-code line and to the block around the next postal-code line at least two
\* lines further down, provided both blocks are non-empty (the line that follows a
\* postal-code line belongs to its block and starts no block of its own).
BlocksAtSeparatePostalLines ==
    \A c \in Workers :
        TwoSeparateBlocks(c) =>
            /\ from_address[c] = AddressBlockAt(lines[c], FirstPostal(lines[c]))
            /\ to_address[c] = AddressBlockAt(lines[c], Min(LaterPostal(lines[c])))

\* a call has returned the two blocks of a document whose second postal-code line
\* directly follows the first and whose third lies further down
BlocksPastAdjacentPostalLine ==
    \E c \in Workers :
        /\ Returned(c) /\ TwoSeparateBlocks(c)
        /\ FirstPostal(lines[c]) + 1 \in PostalLines(lines[c])
        /\ result[c].from_address # result[c].to_address
\* what the marker strategy alone finds for each side
MarkerFrom(c) == MarkerLoop(from_markers, 1, text_lower[c], full_text[c])
MarkerTo(c) == MarkerLoop(to_markers, 1, text_lower[c], full_text[c])

\* the addresses of worker c, given the sides a and b found by the markers and the
\* postal-code blocks
StrategyBFrame(c, a, b, blocks) ==
    /\ a # "" => from_address[c] = a
    /\ b # "" => to_address[c] = b
    /\ a = "" /\ Len(blocks) >= 2 => from_address[c] = blocks[1]
    /\ b = "" /\ Len(blocks) >= 2 => to_address[c] = blocks[2]
    /\ b = "" /\ Len(blocks) = 1 => to_address[c] = blocks[1]
    /\ a = "" /\ Len(blocks) <= 1 => from_address[c] = ""
    /\ b = "" /\ Len(blocks) = 0 => to_address[c] = ""
    /\ Past(c, "_find_address_blocks") <=> (a = "" \/ b = "")

\* C11: the block strategy runs only when the markers left a side unfilled and never
\* changes a side the markers filled: with two blocks or more an unfilled from gets
\* the first block and an unfilled to the second; with one block only an unfilled to
\* gets it; with no block both sides stay as the markers left them.
BlocksFillOnlyUnfilledSides ==
    \A c \in Workers :
        Past(c, "_extract_addresses") =>
            StrategyBFrame(c, MarkerFrom(c), MarkerTo(c), find_address_blocks(lines[c]))

\* a call has returned a marker-filled from beside a to taken from the second of
\* two blocks, the first block being another text than from
MarkerSideKeptBesideBlocks ==
    \E c \in Workers :
        /\ Returned(c) /\ pdf[c].ok
        /\ MarkerFrom(c) # "" /\ MarkerTo(c) = ""
        /\ Len(find_address_blocks(lines[c])) >= 2
        /\ result[c].from_address # find_address_blocks(lines[c])[1]
        /\ result[c].to_address = find_address_blocks(lines[c])[2]
\* an address as the record may hold it: the empty string, or a trimmed text of
\* at most five lines
LineCount(str) == Count(str, "\n") + 1
ValidAddress(addr) ==
    /\ addr \in STRING
    /\ addr # "" => Strip(addr) = addr /\ LineCount(addr) <= max_lines

\* C12: each address _extract_addresses returns is the empty string or a trimmed,
\* non-empty text of at most 5 lines, whichever strategy found it; it is never a
\* null value.
AddressesAreTrimmedBlocks ==
    \A c \in Workers :
        /\ Past(c, "_extract_addresses") =>
               ValidAddress(from_address[c]) /\ ValidAddress(to_address[c])
        /\ Returned(c) =>
               ValidAddress(result[c].from_address) /\ ValidAddress(result[c].to_address)

\* a call has returned a marker address of five lines from a text that goes on
\* after them, beside an address taken from a postal-code block
FiveLineAddressReturned ==
    \E c \in Workers :
        /\ Returned(c) /\ pdf[c].ok
        /\ LineCount(result[c].from_address) = max_lines
        /\ result[c].from_address = MarkerFrom(c)
        /\ Len(lines[c]) > max_lines
        /\ result[c].to_address # "" /\ MarkerTo(c) = ""
ReadPages(c) == FirstN(pdf[c].pages, MaxReadPages)

\* C13: only the first 10 pages are read: two documents whose first 10 pages have the
\* same text end in the same outcome, with the same record in every field (rawText
\* included), whatever their later pages hold.
SameFirstPagesSameResult ==
    \A c \in Workers : \A d \in Workers :
        /\ Finished(c) /\ Finished(d) /\ pdf[c].ok /\ pdf[d].ok
        /\ ReadPages(c) = ReadPages(d)
        => Outcome(c) = Outcome(d)

\* two calls have returned on documents that share their first 10 pages and differ
\* after them, the tenth page being part of the record
DocumentsDifferingAfterTenthPage ==
    \E c \in Workers : \E d \in Workers :
        /\ Returned(c) /\ Returned(d) /\ pdf[c].ok /\ pdf[d].ok
        /\ ReadPages(c) = ReadPages(d) /\ pdf[c].pages # pdf[d].pages
        /\ Len(pdf[c].pages) > MaxReadPages /\ Len(pdf[d].pages) > MaxReadPages
        /\ result[c].doc_title = "12"
\* C14: calls on different documents can be interleaved in any way: each call ends
\* as it ends when it runs alone, for the stages write nothing that another call
\* reads.
InterleavedCallsAsAlone ==
    \A c \in Workers : Finished(c) => Outcome(c) = extract_invoice_data(pdf[c])

\* a call has returned its items while the call of the other caller, on another
\* document, is in the middle of its table scan with items of its own
ReturnedWhileOtherScans ==
    \E c \in Workers : \E d \in Workers :
        /\ Returned(c) /\ result[c].items # <<>>
        /\ pc[d] = "scan" /\ table_items[d] # <<>>
        /\ pdf[c] # pdf[d] /\ result[c].items # table_items[d]
\* no pattern of the list is found in the text
NoneFound(patterns, text) == \A k \in 1..Len(patterns) : ~ReSearch(patterns[k], text).ok

\* the document of worker c holds nothing for any stage to find
NothingToFind(c) ==
    /\ EstimateCount(c) = 0 /\ InvoiceCount(c) = 0
    /\ FrenchCount(c) = 0 /\ EnglishCount(c) = 0
    /\ NoneFound(from_markers, text_lower[c]) /\ NoneFound(to_markers, text_lower[c])
    /\ PostalLines(lines[c]) = {}
    /\ table_items[c] = <<>> /\ extract_inline_items(lines[c]) = <<>>
    /\ NoneFound(total_patterns, text_lower[c])
    /\ NoneFound(ref_patterns, text_lower[c])

\* C15: when the document decodes and no stage finds anything (empty text, for one),
\* the record holds every stage's default: kind invoice, the primary locale, empty
\* addresses, no items, total 0 and an empty title.
NothingFoundGivesDefaults ==
    \A c \in Workers :
        Returned(c) /\ pdf[c].ok /\ NothingToFind(c) =>
            result[c] = [DefaultRecord(PrimaryLocale, "") EXCEPT !.raw_text = full_text[c]]

\* a call has returned on a decoded document that has text and nothing to find
PlainTextReturned ==
    \E c \in Workers :
        Returned(c) /\ pdf[c].ok /\ NothingToFind(c) /\ lines[c] # <<>>
\* the scan of worker c stands on a candidate description (the line does not stop
\* the scan, starts with a letter and is no metadata)
AtCandidate(c) ==
    /\ pc[c] = "scan" /\ i[c] <= Len(lines[c])
    /\ ~IsFinalTotal(Strip(lines[c][i[c]]))
    /\ IsDescription(Strip(lines[c][i[c]]))

\* the numeric tokens the lookahead collects after that description
TokensAt(c) == Lookahead(lines[c], i[c] + 1, <<>>).numbers_found

\* token 0 read as a quantity: its integer value when integral (HugeInt stands for
\* the integer value of a numeral beyond the float range), 1 otherwise
QuantityOfToken(n) == IF n.inf THEN HugeInt ELSE IF n.e = 0 THEN n.m ELSE 1

\* the item list after the iteration, for the description and its tokens
ItemsAsClaimed(its, description, tokens) ==
    IF QuantityOfToken(tokens[1]) > 0 /\ (tokens[2].inf \/ tokens[2].m >= 0)
    THEN Append(its, Item(description, QuantityOfToken(tokens[1]), tokens[2]))
    ELSE its

ScenarioB == <<"Description", "Consulting", "2", "50,00", "100,00">>

\* C16: in the table strategy, when the lookahead after a candidate description has
\* collected at least 2 numeric tokens, the iteration raises nothing and appends the
\* item (description, token 0 as quantity, token 1 as unit price) exactly when the
\* quantity is > 0 and the price >= 0, a third token being ignored; a header, the
\* description Consulting and the numbers 2, 50,00, 100,00 give the one item
\* (Consulting, 2, 50) and the total 100.
TableItemFromTwoTokens ==
    \A c \in Workers :
        /\ AtCandidate(c) /\ Len(TokensAt(c)) >= 2 =>
               /\ ~table_step(lines[c], i[c], table_items[c]).raised
               /\ table_step(lines[c], i[c], table_items[c]).items =
                      ItemsAsClaimed(table_items[c], Strip(lines[c][i[c]]), TokensAt(c))
        /\ Returned(c) /\ lines[c] = ScenarioB =>
               /\ result[c].items = <<Item("Consulting", 2, FloatOfInt(50))>>
               /\ result[c].total = FloatOfInt(100)
\* the first line of the scan, after the header and its cells
ScanStart(c) == SkipHeaderCells(lines[c], HeaderIdx(lines[c]) + 1)

\* the first line from k on that is exactly "total" or begins with "total:", or the
\* line after the last when there is none
TotalLine(line) == Lower(line) = "total" \/ StartsWith(Lower(line), "total:")
FirstStop(ls, k) == Min({n \in k..Len(ls) : TotalLine(Strip(ls[n]))} \cup {Len(ls) + 1})

\* a line from k up to, and not including, line stop is the description
DescribedBefore(ls, k, stop, description) ==
    \E n \in k..(stop - 1) : Strip(ls[n]) = description

\* the scan of worker c with its first stopping line at stop
ScanStopsAt(c, stop) ==
    /\ pc[c] = "scan" => i[c] <= stop
    /\ pc[c] = "scan" /\ i[c] < stop =>
           table_step(lines[c], i[c], table_items[c]).i <= stop
    /\ pc[c] = "scan" /\ i[c] = stop /\ stop <= Len(lines[c]) =>
           /\ table_step(lines[c], i[c], table_items[c]).stop
           /\ table_step(lines[c], i[c], table_items[c]).items = table_items[c]
    /\ \A n \in 1..Len(table_items[c]) :
           DescribedBefore(lines[c], ScanStart(c), stop, table_items[c][n].description)

\* C17: once the header cells are skipped, the table scan stops at the first line
\* that is exactly "total" or begins with "total:" (in any case): the cursor never
\* passes that line, no lookahead consumes it or a line after it, and every table
\* item is described by a line before it.
ScanStopsAtFinalTotal ==
    \A c \in Workers :
        Past(c, "_extract_items") /\ pdf[c].ok /\ HeaderIdx(lines[c]) # 0 =>
            ScanStopsAt(c, FirstStop(lines[c], ScanStart(c)))

\* line n of ls is a candidate description followed by two numbers or more
IsRow(ls, n) ==
    IsDescription(Strip(ls[n])) /\ Len(Lookahead(ls, n + 1, <<>>).numbers_found) >= 2

\* a call has returned the table items of a document in which a row stands after
\* the stopping line
RowAfterFinalTotalLeftOut ==
    \E c \in Workers :
        /\ Returned(c) /\ pdf[c].ok /\ HeaderIdx(lines[c]) # 0
        /\ table_items[c] # <<>> /\ result[c].items = table_items[c]
        /\ \E n \in 1..Len(lines[c]) :
               n > FirstStop(lines[c], ScanStart(c)) /\ IsRow(lines[c], n)
\* a line the inline strategy passes over before trying its patterns
Skipped(line) == AnyMatch(skip_patterns, Lower(line)) \/ Len(line) < MinLineLen

\* what one stripped line may yield: nothing when it is skipped, the item of
\* pattern (a) when (a) accepts the line, the item of pattern (b), if any, otherwise
LineYield(line) ==
    IF Skipped(line) THEN <<>>
    ELSE IF QtyPriceItem(line) # <<>> THEN QtyPriceItem(line)
    ELSE PriceOnlyItem(line)

\* the yields of lines k.. in line order
RECURSIVE YieldsFrom(_, _)
YieldsFrom(ls, k) ==
    IF k > Len(ls) THEN <<>> ELSE LineYield(Strip(ls[k])) \o YieldsFrom(ls, k + 1)

ScenarioE == <<"Website redesign   3  $450.00">>

\* C18: in the inline strategy each line yields at most one item, the items come in
\* line order, and a line on which pattern (a) is accepted yields the item of (a)
\* only; the line "Website redesign   3  $450.00" without a table header yields
\* exactly the item (Website redesign, 3, 450.0).
InlineOneItemPerLine ==
    \A c \in Workers :
        /\ Past(c, "_calculate_total") /\ table_items[c] = <<>> =>
               /\ items[c] = YieldsFrom(lines[c], 1)
               /\ \A k \in 1..Len(lines[c]) : Len(InlineItemsOf(lines[c][k])) <= 1
        /\ Returned(c) /\ lines[c] = ScenarioE =>
               result[c].items = <<Item("Website redesign", 3, FloatOfInt(450))>>

\* a call has returned two inline items in line order, the first of a line that
\* both patterns match
InlineItemsOfTwoLines ==
    \E c \in Workers :
        /\ Returned(c) /\ table_items[c] = <<>> /\ Len(result[c].items) = 2
        /\ Len(lines[c]) = 2
        /\ QtyPriceItem(lines[c][1]) = <<result[c].items[1]>>
        /\ PriceOnlyItem(lines[c][1]) # <<>>
        /\ PriceOnlyItem(lines[c][2]) = <<result[c].items[2]>>
\* the capture of the first match of reference pattern k in the text, stripped
RefCapture(text, k) == Strip(Group(text, ReSearch(ref_patterns[k], text), 1))

\* pattern k matches the text and its first match captures 2 characters or more
RefQualifies(text, k) ==
    ReSearch(ref_patterns[k], text).ok /\ Len(RefCapture(text, k)) >= MinRefLen

\* the first qualifying pattern, or the number of patterns plus one
FirstQualifying(text) ==
    Min({k \in 1..Len(ref_patterns) : RefQualifies(text, k)} \cup {Len(ref_patterns) + 1})

TitleOfPattern(text, k) == IF k > Len(ref_patterns) THEN "" ELSE Upper(RefCapture(text, k))

\* C19: _extract_title returns the empty string or an upper-cased token of at least
\* 2 characters: the capture of the first pattern, in the fixed order, whose first
\* match captures 2 characters or more; a pattern whose first match captures less
\* is passed over for the next one; the empty string when no pattern qualifies.
TitleIsFirstQualifyingCapture ==
    \A c \in Workers :
        Past(c, "_extract_title") =>
            /\ doc_title[c] = TitleOfPattern(text_lower[c], FirstQualifying(text_lower[c]))
            /\ doc_title[c] # "" =>
                   Len(doc_title[c]) >= MinRefLen /\ Upper(doc_title[c]) = doc_title[c]

\* a call has returned the capture of the second pattern, the first pattern having
\* matched with a capture of one character
TitleAfterShortCapture ==
    \E c \in Workers :
        /\ Returned(c) /\ pdf[c].ok
        /\ ReSearch(ref_patterns[1], text_lower[c]).ok
        /\ Len(RefCapture(text_lower[c], 1)) = 1
        /\ result[c].doc_title = Upper(RefCapture(text_lower[c], 2))
        /\ result[c].doc_title # ""
\* the validations of upload_invoice: the name ends in .pdf (in either case), the
\* content is not empty and holds 10 MB at most
ValidFile(f) ==
    /\ EndsWith(Lower(f.filename), ".pdf")
    /\ f.size > 0 /\ f.size <= 10 * 1024 * 1024

Validations == {"type", "empty", "size"}

\* C20: upload_invoice calls the extraction engine only after the file has passed
\* every validation (name ending in .pdf, content not empty, size at most 10 MB): a
\* file that fails one is rejected with status 400, is never written to the
\* uploads directory and never reaches the engine.
EngineOnlyAfterValidation ==
    /\ (\E c \in Workers : pc[c] # "off") =>
           upload.passed = Validations /\ ValidFile(upload.file)
    /\ upload.saved # {} => upload.passed = Validations /\ ValidFile(upload.file)
    /\ ~ValidFile(upload.file) => upload.status \in {0, 400}
    /\ ~ValidFile(upload.file) /\ upload.at = "done" => upload.status = 400

\* an upload of the largest size accepted, under a name in upper case, has been
\* written, parsed by the engine and answered with what the engine returned
UploadParsedAndAnswered ==
    /\ upload.at = "done" /\ upload.status = 200
    /\ upload.file.filename = "SCAN 1.PDF" /\ upload.file.size = MaxUploadBytes
    /\ upload.saved = {"4f1c_SCAN1.PDF"}
    /\ upload.worker \in Workers /\ pc[upload.worker] = "done"
    /\ upload.extracted.doc_title = "12"
\* a line made of digits, periods and commas only
PureNumberLine(line) == line # "" /\ \A n \in 1..Len(line) : At(line, n) \in NumCh

\* a line that begins with a letter
LetterLine(line) == line # "" /\ At(line, 1) \in Letter

\* the lookahead la after the description at line k of ls took its tokens from the
\* lines k + 1, k + 2, ... in a row, each a pure number whose value is the token
TokensFromNextLines(ls, k, la) ==
    \A n \in 1..Len(la.numbers_found) :
        /\ PureNumberLine(ls[k + n])
        /\ ParseFloat(Replace(ls[k + n], ",", ".")).ok
        /\ ParseFloat(Replace(ls[k + n], ",", ".")).v = la.numbers_found[n]

\* the lookahead la after line k of ls passed no line that begins with a letter or
\* with the word total, and ended on such a line, after its third token or after
\* the last line
StoppedEarly(ls, k, la) ==
    /\ \A n \in (k + 1)..(la.j - 1) :
           ~LetterLine(ls[n]) /\ ~StartsWith(Lower(ls[n]), "total")
    /\ \/ la.j = Len(ls) + 1
       \/ Len(la.numbers_found) = 3
       \/ LetterLine(ls[la.j])
       \/ StartsWith(Lower(ls[la.j]), "total")

LookaheadAsClaimed(ls, k, la) ==
    /\ Len(la.numbers_found) <= 3
    /\ TokensFromNextLines(ls, k, la)
    /\ StoppedEarly(ls, k, la)

\* C21: the lookahead after a candidate description collects at most 3 pure-numeric
\* tokens, taken from the consecutive lines that immediately follow the description
\* (no line that is not a pure number lies between the description and a collected
\* token), and stops at the first line that starts with a letter or begins with the
\* word total.
LookaheadTakesConsecutiveNumbers ==
    \A c \in Workers :
        AtCandidate(c) =>
            LookaheadAsClaimed(lines[c], i[c], Lookahead(lines[c], i[c] + 1, <<>>))

\* the same without the requirement that the tokens stand on consecutive lines
LookaheadStopsEarly ==
    \A c \in Workers :
        AtCandidate(c) =>
            /\ Len(TokensAt(c)) <= 3
            /\ StoppedEarly(lines[c], i[c], Lookahead(lines[c], i[c] + 1, <<>>))

\* a line that ends a lookahead: it begins with a letter or with the word total
Stopper(line) == LetterLine(line) \/ StartsWith(Lower(line), "total")

\* the first such line after line k of ls, or the line after the last
FirstStopper(ls, k) == Min({n \in (k + 1)..Len(ls) : Stopper(ls[n])} \cup {Len(ls) + 1})

\* a line read as a number
IsNumberLine(line) == PureNumberLine(line) /\ ParseFloat(Replace(line, ",", ".")).ok

\* the number lines after line k of ls and before line stop
NumberLinesIn(ls, k, stop) == {n \in (k + 1)..(stop - 1) : IsNumberLine(ls[n])}

\* the first line the lookahead after line k of ls does not consume, its number
\* lines before the first stopper being S: the line after the third number, or the
\* stopper
AfterNumbers(S, stop) ==
    IF Cardinality(S) >= 3
    THEN (CHOOSE n \in S : Cardinality({m \in S : m <= n}) = 3) + 1
    ELSE stop
FirstUnconsumed(ls, k) ==
    AfterNumbers(NumberLinesIn(ls, k, FirstStopper(ls, k)), FirstStopper(ls, k))

\* the iteration r goes on with the scan at line n
GoesOnAt(r, n) == ~r.raised /\ ~r.stop /\ r.i = n

\* C22: when the lookahead has collected at least 2 numeric tokens, the iteration
\* moves the scan cursor to the first line the lookahead did not consume (the line
\* that stopped it, or the line after the last collected number), whether or not an
\* item was constructed, and the scan goes on from that line: no description that
\* directly follows the numbers is skipped and no number line is read twice.
CursorMovesPastLookahead ==
    \A c \in Workers :
        AtCandidate(c) /\ Len(TokensAt(c)) >= 2 =>
            GoesOnAt(table_step(lines[c], i[c], table_items[c]),
                     FirstUnconsumed(lines[c], i[c]))

\* the same for the iterations whose first token is a finite number
CursorMovesUnlessOverflow ==
    \A c \in Workers :
        AtCandidate(c) /\ Len(TokensAt(c)) >= 2 /\ ~TokensAt(c)[1].inf =>
            GoesOnAt(table_step(lines[c], i[c], table_items[c]),
                     FirstUnconsumed(lines[c], i[c]))

\* line k of ls is followed by fewer than 2 number lines before the next stopper
FewNumbersAfter(ls, k) == Cardinality(NumberLinesIn(ls, k, FirstStopper(ls, k))) < 2

\* C23: when the lookahead after a candidate description has collected fewer than 2
\* numeric tokens, the iteration produces no item and advances the cursor by exactly
\* one line, so that the lines the lookahead inspected are examined again by the
\* scan.
ShortLookaheadAdvancesOneLine ==
    \A c \in Workers :
        AtCandidate(c) /\ FewNumbersAfter(lines[c], i[c]) =>
            /\ GoesOnAt(table_step(lines[c], i[c], table_items[c]), i[c] + 1)
            /\ table_step(lines[c], i[c], table_items[c]).items = table_items[c]

\* the scan stands on a number line that the lookahead of the line before it, a
\* candidate description with fewer than 2 numbers, has inspected already
InspectedLineExaminedAgain ==
    \E c \in Workers :
        /\ pc[c] = "scan" /\ i[c] > ScanStart(c) /\ i[c] <= Len(lines[c])
        /\ IsNumberLine(lines[c][i[c]])
        /\ IsDescription(lines[c][i[c] - 1]) /\ ~IsFinalTotal(lines[c][i[c] - 1])
        /\ FewNumbersAfter(lines[c], i[c] - 1)
        /\ table_items[c] = <<>>

\* the non-empty blocks around the lines of S, in increasing order of the line
RECURSIVE BlocksAround(_, _)
BlocksAround(ls, S) ==
    IF S = {} THEN <<>>
    ELSE (IF AddressBlockAt(ls, Min(S)) # "" THEN <<AddressBlockAt(ls, Min(S))>> ELSE <<>>)
         \o BlocksAround(ls, S \ {Min(S)})

\* line n of ls starts a block: it holds a postal code and the line before it
\* started none
RECURSIVE StartsBlock(_, _)
StartsBlock(ls, n) == HasPostalCode(ls[n]) /\ (n = 1 \/ ~StartsBlock(ls, n - 1))
BlockStarts(ls) == {n \in 1..Len(ls) : StartsBlock(ls, n)}

\* Strategy B has run on the lines of worker c and its blocks were those of S
StrategyBCollected(c, S) ==
    /\ find_address_blocks(lines[c]) = BlocksAround(lines[c], S)
    /\ <<from_address[c], to_address[c]>> =
           StripBoth(FromBlocks(MarkerFrom(c), MarkerTo(c), BlocksAround(lines[c], S)))

\* C24 as stated: Strategy B examines every line: each line that matches the
\* postal-code pattern yields one block built from lines i-2..i+1, the blocks are
\* collected in increasing order, and no matching line is skipped because of an
\* earlier match.
EveryPostalLineStartsBlock ==
    \A c \in Workers :
        Past(c, "_find_address_blocks") => StrategyBCollected(c, PostalLines(lines[c]))

\* C24 amended: Strategy B collects, in increasing order, the non-empty blocks built
\* from lines i-2..i+1 around every postal-code line i that does not directly follow
\* a line that started a block (after a match at line i the scan resumes at line
\* i+2).
BlocksAtExaminedPostalLines ==
    \A c \in Workers :
        Past(c, "_find_address_blocks") => StrategyBCollected(c, BlockStarts(lines[c]))

\* a call has returned the blocks of a document with three postal-code lines in a
\* row: the first and the third start a block, the second starts none, and the two
\* blocks overlap
OverlappingBlocksReturned ==
    \E c \in Workers :
        /\ Returned(c) /\ Past(c, "_find_address_blocks")
        /\ \E n \in 1..Len(lines[c]) :
               /\ {n, n + 1, n + 2} \subseteq PostalLines(lines[c])
               /\ {n, n + 2} \subseteq BlockStarts(lines[c])
        /\ Len(find_address_blocks(lines[c])) = 2
        /\ result[c].from_address # "" /\ result[c].to_address # ""

\* the block after the first match of a marker pattern in the text of worker c, ""
\* when the pattern does not match
BlockAfterMatch(text, match) ==
    IF match.ok THEN extract_address_block(text, match.end) ELSE ""
BlockAfter(c, pattern) == BlockAfterMatch(full_text[c], ReSearch(pattern, text_lower[c]))

\* the patterns of a list whose block is longer than 10 characters
LongBlocks(c, markers) == {k \in 1..Len(markers) : Len(BlockAfter(c, markers[k])) > 10}

\* the block of the first of them, "" when there is none
FirstLongBlock(c, markers) ==
    IF LongBlocks(c, markers) = {} THEN ""
    ELSE BlockAfter(c, markers[Min(LongBlocks(c, markers))])

\* a side of worker c as the markers and their blocks decide it
SideOfMarkers(c, markers, side) ==
    /\ FirstLongBlock(c, markers) # "" => side = Strip(FirstLongBlock(c, markers))
    /\ FirstLongBlock(c, markers) = "" /\ PostalLines(lines[c]) = {} => side = ""

\* C25: in Strategy A the marker patterns of a side are tried in their listed order
\* and the side is the block of the first pattern that matches with a block of more
\* than 10 characters: a pattern that matches with a shorter block fills nothing and
\* the next pattern is tried; once a side is filled later patterns are not consulted.
MarkersTriedInOrder ==
    \A c \in Workers :
        Past(c, "_extract_addresses") =>
            /\ SideOfMarkers(c, from_markers, from_address[c])
            /\ SideOfMarkers(c, to_markers, to_address[c])

\* a call has returned the block of the second sender pattern, the first pattern
\* having matched before a block of 10 characters at most
ShortBlockPassedOver ==
    \E c \in Workers :
        /\ Returned(c) /\ pdf[c].ok
        /\ ReSearch(from_markers[1], text_lower[c]).ok
        /\ BlockAfter(c, from_markers[1]) # ""
        /\ Len(BlockAfter(c, from_markers[1])) <= 10
        /\ result[c].from_address = Strip(BlockAfter(c, from_markers[2]))
        /\ result[c].from_address # ""

\* the prefixes that end a block
SectionPrefixes ==
    {"from", "to", "de", "à", "client", "total", "montant", "date", "invoice", "facture"}
SectionLine(line) == \E prefix \in SectionPrefixes : StartsWith(Lower(line), prefix)

\* the first 5 lines, stripped, of the 500 characters of text from index start
StrippedLines(parts) == [k \in 1..Len(parts) |-> Strip(parts[k])]
WindowLines(text, start) ==
    StrippedLines(FirstN(Split(SubSeq(text, start,
                                      IF start + 499 < Len(text) THEN start + 499
                                      ELSE Len(text))), 5))

\* the first of the lines ps that ends the block: a section line, or a blank line
\* after a line that is not blank
BlockEnd(ps) ==
    Min({k \in 1..Len(ps) :
            \/ SectionLine(ps[k])
            \/ ps[k] = "" /\ \E j \in 1..(k - 1) : ps[j] # ""}
        \cup {Len(ps) + 1})

\* the block: the lines before it that are not blank
BlockOfLines(ps) == Join(SelectSeq(SubSeq(ps, 1, BlockEnd(ps) - 1), LAMBDA l : l # ""))

\* the block after a match is the claimed block of its window
BlockAsClaimed(text, match) ==
    match.ok => extract_address_block(text, match.end) =
                    BlockOfLines(WindowLines(text, match.end))

\* the side is the claimed block after the match of one of the patterns
SideIsClaimedBlock(c, markers, side) ==
    \E k \in 1..Len(markers) :
        /\ ReSearch(markers[k], text_lower[c]).ok
        /\ side = Strip(BlockOfLines(WindowLines(full_text[c],
                                                 ReSearch(markers[k], text_lower[c]).end)))

\* C26: a Strategy A block is taken from the first 5 lines at most of the window of
\* 500 characters at most after the marker: it is made of the lines that are not
\* blank and stand before the first blank line that follows a collected line and
\* before the first line that starts with a section-marker prefix; blank lines
\* before any content are passed over and do not end the block.
MarkerBlockEndsAtBlankOrSection ==
    \A c \in Workers :
        Past(c, "_extract_addresses") =>
            /\ \A k \in 1..Len(from_markers) :
                   BlockAsClaimed(full_text[c], ReSearch(from_markers[k], text_lower[c]))
            /\ \A k \in 1..Len(to_markers) :
                   BlockAsClaimed(full_text[c], ReSearch(to_markers[k], text_lower[c]))
            /\ MarkerFrom(c) # "" => SideIsClaimedBlock(c, from_markers, from_address[c])
            /\ MarkerTo(c) # "" => SideIsClaimedBlock(c, to_markers, to_address[c])

\* a call has returned a recipient block that stands behind blank lines and ends at
\* a blank line with text after it, all within the first 5 lines of the window
BlockBetweenBlankLines ==
    \E c \in Workers :
        /\ Returned(c) /\ pdf[c].ok
        /\ result[c].to_address = "Dupont et Fils"
        /\ MarkerTo(c) = "Dupont et Fils"
        /\ \E n \in 2..Len(lines[c]) :
               lines[c][n - 1] = "Dupont et Fils" /\ lines[c][n] = "69002 Lyon"

\* the metadata prefixes: those that need a white space after them, and the others
SpacedPrefixes ==
    {"devis", "facture", "invoice", "estimate", "date", "client", "n°", "no", "n°.", "no."}
BarePrefixes == {"ref", "numéro", "number", "valide", "valid", "émis", "issued"}

\* t begins with prefix followed by a white space
SpacedPrefix(t, prefix) ==
    StartsWith(t, prefix) /\ Len(t) > Len(prefix) /\ At(t, Len(prefix) + 1) \in Space

\* t begins with a date: 1 or 2 digits, / or -, 1 or 2 digits, / or -, 2 digits
DateAt(t, a, b) ==
    /\ Len(t) >= a + b + 4
    /\ \A n \in 1..a : At(t, n) \in Digit
    /\ At(t, a + 1) \in {"/", "-"}
    /\ \A n \in (a + 2)..(a + b + 1) : At(t, n) \in Digit
    /\ At(t, a + b + 2) \in {"/", "-"}
    /\ At(t, a + b + 3) \in Digit /\ At(t, a + b + 4) \in Digit
StartsWithDate(t) == \E a \in 1..2 : \E b \in 1..2 : DateAt(t, a, b)

\* isMetadata for a text and its trimmed lower-case form t
MetadataText(text, t) ==
    \/ \E prefix \in SpacedPrefixes : SpacedPrefix(t, prefix)
    \/ \E prefix \in BarePrefixes : StartsWith(t, prefix)
    \/ StartsWithDate(t)
    \/ Len(text) < 15 /\ text # "" /\ At(text, 1) \in Digit
IsMetadataText(text) == MetadataText(text, Strip(Lower(text)))

NoMetadataIn(its) == \A k \in 1..Len(its) : ~IsMetadataText(its[k].description)

\* C27: no item of either extraction strategy has a description for which
\* isMetadata is true: a line (table strategy) or a captured description (inline
\* strategy) that matches a metadata prefix, or is shorter than 15 characters and
\* starts with a digit, never becomes an item.
NoItemIsMetadata ==
    \A c \in Workers :
        /\ NoMetadataIn(table_items[c])
        /\ NoMetadataIn(items[c])
        /\ Returned(c) => NoMetadataIn(result[c].items)

\* a call has returned the one item of a table in which a reference line stands
\* before two numbers
ReferenceRowLeftOut ==
    \E c \in Workers :
        /\ Returned(c) /\ pdf[c].ok
        /\ \E n \in 1..Len(lines[c]) :
               /\ n > HeaderIdx(lines[c]) /\ HeaderIdx(lines[c]) # 0
               /\ IsMetadataText(lines[c][n])
               /\ LetterLine(lines[c][n])
               /\ Cardinality(NumberLinesIn(lines[c], n, FirstStopper(lines[c], n))) >= 2
        /\ result[c].items = <<Item("Widget", 1, FloatOfInt(20))>>

\* the scan of worker c is under way
Scanning(c) == pc[c] = "scan"

\* the cursor stays between the first scanned line and the line after the last, and
\* every item has taken a line that the cursor has passed
ScanWithinLines ==
    \A c \in Workers :
        Scanning(c) =>
            /\ ScanStart(c) <= i[c] /\ i[c] <= Len(lines[c]) + 1
            /\ Len(table_items[c]) <= i[c] - ScanStart(c)
            /\ Len(table_items[c]) <= Len(lines[c])

\* the iteration r taken at line n either ends the scan or leaves the cursor on a
\* later line, the line after the last at most
Advances(r, n, last) == r.stop \/ r.raised \/ (r.i > n /\ r.i <= last + 1)

\* the iteration that a scan under way is about to take does so
EveryIterationAdvances ==
    \A c \in Workers :
        Scanning(c) /\ i[c] <= Len(lines[c]) =>
            Advances(table_step(lines[c], i[c], table_items[c]), i[c], Len(lines[c]))

\* a step that leaves the scan under way has moved the cursor forward
CursorIncreases ==
    \A c \in Workers : Scanning(c) /\ Scanning(c)' => i[c]' > i[c]

\* C28: the table scan always terminates: every iteration of the loop either ends
\* the scan or strictly increases the cursor, which never passes the line after the
\* last, so the scan is over after at most as many iterations as there are lines
\* after the header; the number of items never exceeds the number of lines.
TableScanTerminates ==
    /\ []ScanWithinLines
    /\ []EveryIterationAdvances
    /\ [][CursorIncreases]_vars

\* a scan has ended past the last line with two items collected
ScanEndedPastLastLine ==
    \E c \in Workers :
        /\ pc[c] = "fallback" /\ HeaderIdx(lines[c]) # 0
        /\ i[c] = Len(lines[c]) + 1
        /\ Len(table_items[c]) >= 2

\* sum(quantity * price over the items from the k-th on), added up from acc:
\* [raised, v]
RECURSIVE SumOfItems(_, _, _)
SumOfItems(its, k, acc) ==
    IF k > Len(its) THEN [raised |-> FALSE, v |-> acc]
    ELSE IF ItemTotal(its[k]).raised THEN [raised |-> TRUE, v |-> Nan]
    ELSE SumOfItems(its, k + 1, Sum(acc, ItemTotal(its[k]).v))

\* total_amount equals the sum over the items list, 0 for the empty list
TotalIsSumOfItems ==
    /\ ~SumOfItems(app.items, 1, Finite(0, 0)).raised
    /\ FloatEq(app.total_amount, SumOfItems(app.items, 1, Finite(0, 0)).v)

StoredItemsValid ==
    \A k \in 1..Len(app.items) :
        app.items[k].quantity >= 1 /\ IsNonNegative(app.items[k].price)

AddErrors == {"error_desc_empty", "error_qty_invalid", "error_price_invalid"}

\* an add-item that ends with an error box has changed neither the items nor the total
RejectedAddKeepsState ==
    app'.shown \in AddErrors =>
        app'.items = app.items /\ app'.total_amount = app.total_amount

\* C29: in the desktop application, after any sequence of add-item,
\* remove-selected-item and clear-all operations, total_amount equals the sum of
\* quantity x price over the current items (0 for the empty list), every stored item
\* has quantity >= 1 and price >= 0, and a rejected add-item leaves the items list
\* and total_amount unchanged.
AppTotalMatchesItems ==
    /\ [](TotalIsSumOfItems /\ StoredItemsValid)
    /\ [][RejectedAddKeepsState]_vars

\* the part of C29 that the code keeps: quantities are at least 1, no price is below
\* zero, and a rejected add-item changes nothing but the message shown
AppRejectsBadEntries ==
    /\ [](\A k \in 1..Len(app.items) :
              app.items[k].quantity >= 1 /\ ~IsNegative(app.items[k].price))
    /\ [][RejectedAddKeepsState]_vars

\* an item whose price is nan is stored
NanPriceStored == \E k \in 1..Len(app.items) : app.items[k].price = Nan

\* an item is in the list although the total was never increased for it
ItemAppendedTotalUntouched ==
    /\ Len(app.items) = 1 /\ app.items[1].quantity = HugeInt
    /\ app.total_amount = Finite(0, 0)

\* the clients that calls of get_supabase have returned
ReturnedClients == UNION {thread[t].returned : t \in Threads}

\* C30: the lazily initialised backend client is a singleton: under every
\* interleaving of concurrent get_supabase calls the client is created at most once
\* and all callers receive the same client instance.
ClientIsSingleton ==
    /\ Cardinality(clients) <= 1
    /\ Cardinality(ReturnedClients) <= 1

\* what holds of get_supabase without a lock: a call returns a client that
\* create_client has made, never None, the global once set stays set, and nothing
\* is created when a setting is missing
ClientNeverUnset ==
    /\ [](ReturnedClients \subseteq clients /\ supabase \in clients \cup {None})
    /\ [](env # Configured => clients = {})
    /\ [][supabase # None => supabase' # None]_vars

\* two threads have found the global unset and each has created a client
TwoClientsCreated ==
    \E t \in Threads, u \in Threads :
        /\ t # u
        /\ thread[t].returned # {} /\ thread[u].returned # {}
        /\ thread[t].returned # thread[u].returned

====
